---- MODULE Spec2Model ----
(***************************************************************************)
(* Model of the unison-actuation gateway: the risk and policy gate, the   *)
(* capability router, the telemetry publisher with its bounded local log, *)
(* the /actuate dispatcher and the /vdi/tasks/browse proxy.                *)
(***************************************************************************)
EXTENDS Integers, Sequences, FiniteSets, TLC

(* Python's None for the Optional[str] fields. *)
None == "None"

\* a datetime.datetime: ActionEnvelope.created_at, set by its default_factory
\* or parsed from the request
Datetime == [python_type |-> "datetime"]

(***************************************************************************)
(* Bounds of the model.                                                    *)
(***************************************************************************)
\* number of /actuate requests a behaviour receives
MaxRequests == 1
\* largest constraints.required_confirmations a client sends
MaxConfirmations == 1
\* number of events published in the ring-buffer specification
MaxPublishes == 102
\* largest limit asked of /telemetry/recent beyond the log's capacity
MaxLimitOver == 2

\* the largest VDI_RETRY_ATTEMPTS a deployment of the task proxy is given
MaxAttempts == 3

\* the in_progress events one heartbeat task publishes at most
MaxBeats == 2

(***************************************************************************)
(* schemas.py: RiskLevel(str, enum.Enum).  The members are str instances, *)
(* so the comparison operators are those of str: lexicographic on the     *)
(* code points of the value.                                               *)
(***************************************************************************)
RiskLevel == {"low", "medium", "high"}

\* code points of the enum values
CodePoints(s) ==
    CASE s = "low" -> <<108, 111, 119>>
      [] s = "medium" -> <<109, 101, 100, 105, 117, 109>>
      [] s = "high" -> <<104, 105, 103, 104>>

RECURSIVE SeqGreater(_, _)
\* str.__gt__ on two code point sequences
SeqGreater(a, b) ==
    IF a = <<>> THEN FALSE
    ELSE IF b = <<>> THEN TRUE
    ELSE IF Head(a) # Head(b) THEN Head(a) > Head(b)
    ELSE SeqGreater(Tail(a), Tail(b))

\* RiskLevel(a) > RiskLevel(b)
RiskLevelGreater(a, b) == SeqGreater(CodePoints(a), CodePoints(b))

(***************************************************************************)
(* drivers/base.py: Capability, BaseDriver, DriverRegistry.                *)
(***************************************************************************)
Capability(name, device_classes) == [name |-> name, device_classes |-> device_classes]

\* Capability.matches
matches(cap, envelope) ==
    IF cap.device_classes # {} /\ envelope.target.device_class \notin cap.device_classes
    THEN FALSE
    ELSE envelope.intent.name = cap.name

LoggingDriver ==
    [name |-> "logging", accept_all |-> TRUE, max_risk_level |-> "high",
     capabilities |-> <<Capability("*", {})>>]

DesktopAutomationDriver ==
    [name |-> "desktop-automation", accept_all |-> FALSE, max_risk_level |-> "high",
     capabilities |-> <<Capability("desktop.command", {"desktop", "browser"}),
                        Capability("desktop.navigate", {"desktop", "browser"})>>]

MockHomeDriver ==
    [name |-> "mock-home", accept_all |-> FALSE, max_risk_level |-> "high",
     capabilities |-> <<Capability("turn_on", {"light", "switch"}),
                        Capability("turn_off", {"light", "switch"}),
                        Capability("set_brightness", {"light"})>>]

MockRobotDriver ==
    [name |-> "mock-robot", accept_all |-> FALSE, max_risk_level |-> "high",
     capabilities |-> <<Capability("robot.move", {"robot"}),
                        Capability("robot.dock", {"robot"}),
                        Capability("robot.stop", {"robot"})>>]

MqttDriver ==
    [name |-> "mqtt", accept_all |-> FALSE, max_risk_level |-> "medium",
     capabilities |-> <<Capability("device.publish", {"mqtt"})>>]

\* BaseDriver.can_handle for every driver, LoggingDriver not overriding it
can_handle_declared(driver, envelope) ==
    \E i \in DOMAIN driver.capabilities : matches(driver.capabilities[i], envelope)

\* BaseDriver.can_handle, and LoggingDriver's override of it
can_handle(driver, envelope) ==
    LET base == \E i \in DOMAIN driver.capabilities :
                    matches(driver.capabilities[i], envelope)
    IN  IF driver.name = "logging" THEN driver.accept_all \/ base ELSE base

\* the DriverError raised by DriverRegistry.route
NoDriver == [name |-> "DriverError"]

RECURSIVE route_from(_, _, _)
\* the loop of DriverRegistry.route, from list index i
route_from(drivers, i, envelope) ==
    IF i > Len(drivers) THEN NoDriver
    ELSE IF can_handle(drivers[i], envelope) THEN drivers[i]
    ELSE route_from(drivers, i + 1, envelope)

\* route keeping the last capable driver of the list instead of the first
route_last_match(drivers, envelope) ==
    LET capable == {i \in DOMAIN drivers : can_handle(drivers[i], envelope)}
    IN  IF capable = {} THEN NoDriver
        ELSE drivers[CHOOSE i \in capable : \A j \in capable : j <= i]

\* DriverRegistry.route
route(drivers, envelope) == route_from(drivers, 1, envelope)

\* app.py: the registry the process builds
driver_registry ==
    <<LoggingDriver, DesktopAutomationDriver, MockHomeDriver, MockRobotDriver, MqttDriver>>

(***************************************************************************)
(* schemas.py: the records the handlers exchange.  Optional[ActionIntent]  *)
(* is a sequence of length 0 (None) or 1, and so is an Optional[List].      *)
(***************************************************************************)
ActionIntent(name, parameters) == [name |-> name, parameters |-> parameters]

ActionTarget(device_id, device_class) ==
    [device_id |-> device_id, device_class |-> device_class]

ActionDecision(permitted, status, reason, risk_level, requires_confirmation) ==
    [permitted |-> permitted, status |-> status, reason |-> reason,
     risk_level |-> risk_level, requires_confirmation |-> requires_confirmation,
     rewritten_intent |-> <<>>]

\* message is a free text derived from the other fields and is left out
ActionResult(action_id, status, driver, telemetry) ==
    [action_id |-> action_id, status |-> status, driver |-> driver,
     telemetry |-> telemetry]

\* ActionEnvelope.validate_risk: TRUE when construction succeeds.
\* constraints.allowed_risk_levels is an Optional[List[RiskLevel]]: <<>> for
\* None, <<list>> otherwise; `if allowed` is false for None and for []
validate_risk(envelope) ==
    LET allowed == envelope.constraints.allowed_risk_levels
        truthy == allowed # <<>> /\ allowed[1] # <<>>
    IN  ~(truthy /\ \A i \in DOMAIN allowed[1] : allowed[1][i] # envelope.risk_level)

(***************************************************************************)
(* The drivers' execute.  backend is what the MQTT client library does on  *)
(* this call: "not_installed", "publish_failed" or "published".            *)
(***************************************************************************)
DriverFailure(text) == [raised |-> TRUE, error |-> text]

DriverSuccess(res) == [raised |-> FALSE, result |-> res]

\* LoggingDriver.execute
logging_execute(envelope) ==
    DriverSuccess(ActionResult(envelope.action_id, "logged", "logging", [logged |-> TRUE]))

\* DesktopAutomationDriver.execute
desktop_execute(envelope) ==
    LET intent == envelope.intent.name
    IN  IF intent \notin {"desktop.command", "desktop.navigate"}
        THEN DriverFailure("Unsupported desktop intent")
        ELSE DriverSuccess(ActionResult(envelope.action_id, "accepted", "desktop-automation",
                 [parameters |-> envelope.intent.parameters]))

\* MockHomeDriver.execute
mock_home_execute(envelope) ==
    LET intent == envelope.intent.name
    IN  IF intent \notin {"turn_on", "turn_off", "set_brightness"}
        THEN DriverFailure("Unsupported home intent")
        ELSE DriverSuccess(ActionResult(envelope.action_id, "completed", "mock-home",
                 [device_id |-> envelope.target.device_id, intent |-> intent]))

\* MockRobotDriver.execute
mock_robot_execute(envelope) ==
    LET intent == envelope.intent.name
    IN  IF intent \notin {"robot.move", "robot.dock", "robot.stop"}
        THEN DriverFailure("Unsupported robot intent")
        ELSE DriverSuccess(ActionResult(envelope.action_id,
                 IF intent # "robot.stop" THEN "completed" ELSE "halted",
                 "mock-robot",
                 [intent |-> intent, pose |-> envelope.intent.parameters]))

\* MqttDriver.execute
mqtt_execute(envelope, backend) ==
    LET topic == envelope.intent.parameters.topic
        telemetry == [topic |-> topic, broker |-> "mqtt://localhost:1883"]
    IN  IF topic = None THEN DriverFailure("MQTT topic required")
        ELSE IF backend = "not_installed"
        THEN DriverSuccess(ActionResult(envelope.action_id, "logged", "mqtt", telemetry))
        ELSE IF backend = "publish_failed"
        THEN DriverFailure("MQTT publish failed")
        ELSE DriverSuccess(ActionResult(envelope.action_id, "completed", "mqtt", telemetry))

\* driver.execute(envelope), by the class of the driver
execute(driver, envelope, backend) ==
    CASE driver.name = "logging" -> logging_execute(envelope)
      [] driver.name = "desktop-automation" -> desktop_execute(envelope)
      [] driver.name = "mock-home" -> mock_home_execute(envelope)
      [] driver.name = "mock-robot" -> mock_robot_execute(envelope)
      [] driver.name = "mqtt" -> mqtt_execute(envelope, backend)

MqttBackends == {"not_installed", "publish_failed", "published"}

(***************************************************************************)
(* The state.  cfg holds the process configuration read from the           *)
(* environment at start (app.py lines 41-51 and 84) and the driver list    *)
(* the registry was built with; it does not change afterwards.            *)
(***************************************************************************)
VARIABLES
    cfg,            \* the configuration
    pc,             \* where each request is
    envelope,       \* the ActionEnvelope of each request
    authorization,  \* the Authorization header of each request
    decision,       \* the ActionDecision get_decision produced
    driver,         \* the driver the handler chose
    result,         \* the ActionResult the driver returned
    response,       \* the HTTP response of each request
    task,           \* the VdiBrowseRequest of each /vdi/tasks/browse request
    call,           \* how _call_vdi ended for each such request
    agent,          \* the loop of _call_vdi: attempt, POSTs made, sleeps and their
                    \* delays, last_detail
    done,           \* the asyncio.Event done of each such request
    hb_task,        \* the task running _heartbeat for each such request
    event,          \* the event of the publish each request is in
    pending,        \* sink posts of a publish not yet attempted
    TELEMETRY_LOG,  \* the deque of telemetry events
    policy_calls,   \* calls of client.post for the policy service, per request
    executed,       \* drivers whose execute was called, per request
    posts,          \* sink delivery attempts made so far
    published,      \* number of events appended since start
    recent,         \* last answer of GET /telemetry/recent
    routing,        \* a registry, an envelope and what route returned for them
    validation,     \* the fields given to ActionEnvelope(...) and how it ended
    gate            \* an envelope, a response of the policy service, and the
                    \* decisions evaluate_policy returned for them

vars == <<cfg, pc, envelope, authorization, decision, driver, result, response, task, call,
          agent, done, hb_task, event, pending, TELEMETRY_LOG, policy_calls, executed,
          posts, published, recent, routing, validation, gate>>

Requests == 1..MaxRequests

(***************************************************************************)
(* Risk and policy gate: evaluate_policy.                                  *)
(***************************************************************************)
\* evaluate_policy asking the policy service before it looks at the allowlist
evaluate_policy_service_first(env) ==
    IF cfg.POLICY_URL THEN <<>>
    ELSE IF env.risk_level \notin cfg.ALLOWED_RISK_LEVELS
    THEN <<ActionDecision(FALSE, "rejected", "Risk level not enabled",
                          env.risk_level, FALSE)>>
    ELSE <<ActionDecision(TRUE, "permitted", None, env.risk_level,
                          env.constraints.required_confirmations > 0)>>

\* evaluate_policy never asking for a confirmation
evaluate_policy_unconfirmed(env) ==
    IF env.risk_level \notin cfg.ALLOWED_RISK_LEVELS
    THEN <<ActionDecision(FALSE, "rejected", "Risk level not enabled",
                          env.risk_level, FALSE)>>
    ELSE IF ~cfg.POLICY_URL
    THEN <<ActionDecision(TRUE, "permitted", None, env.risk_level, FALSE)>>
    ELSE <<>>

\* lines 83-100: the decision taken without the policy service, as a
\* sequence of length 1, or the empty sequence when evaluate_policy goes on
\* to the call of the service
evaluate_policy_local(env) ==
    IF env.risk_level \notin cfg.ALLOWED_RISK_LEVELS
    THEN <<ActionDecision(FALSE, "rejected", "Risk level not enabled",
                          env.risk_level, FALSE)>>
    ELSE IF ~cfg.POLICY_URL
    THEN <<ActionDecision(TRUE, "permitted", None, env.risk_level,
                          env.constraints.required_confirmations > 0)>>
    ELSE <<>>

\* f"Policy evaluation failed ({response.status_code})"
policy_failed(status_code) ==
    CASE status_code = 403 -> "Policy evaluation failed (403)"
      [] status_code = 500 -> "Policy evaluation failed (500)"
      [] OTHER -> "Policy evaluation failed"

\* data.get(key, default), an absent key being the empty sequence
get(value, default) == IF value = <<>> THEN default ELSE value[1]

\* lines 111-125: the decision made of the response of the policy service
evaluate_policy_response(resp, proposed_risk) ==
    IF resp.status_code >= 400
    THEN ActionDecision(FALSE, "rejected", policy_failed(resp.status_code),
                        proposed_risk, FALSE)
    ELSE ActionDecision(get(resp.data.permitted, FALSE),
                        get(resp.data.status, "unknown"),
                        get(resp.data.reason, None),
                        proposed_risk,
                        get(resp.data.requires_confirmation, FALSE))

\* envelope.model_dump(): the fields as Python values, created_at among them
model_dump(env) == env

\* json.dumps, which httpx applies to the json= argument of client.post
\* while it builds the request: TRUE when it raises the TypeError it has for a
\* value holding a datetime
json_dumps_raises(context) == context.created_at = Datetime

(***************************************************************************)
(* verify_auth.                                                            *)
(***************************************************************************)
\* auth.replace("Bearer ", "").strip() on the headers the model sends
bearer_token(header) ==
    CASE header = None -> ""
      [] header = "Bearer secret-token" -> "secret-token"
      [] header = "secret-token" -> "secret-token"
      [] header = "Bearer wrong" -> "wrong"

\* verify_auth without `not SERVICE_TOKEN`: the tokens are compared only
verify_auth_unguarded(header) ==
    IF ~cfg.REQUIRE_AUTH THEN TRUE
    ELSE bearer_token(header) = cfg.SERVICE_TOKEN

\* TRUE when verify_auth returns, FALSE when it raises 401.  `not
\* SERVICE_TOKEN` holds for None and for the empty string
verify_auth(header) ==
    IF ~cfg.REQUIRE_AUTH THEN TRUE
    ELSE ~(cfg.SERVICE_TOKEN \in {None, ""} \/ bearer_token(header) # cfg.SERVICE_TOKEN)

(***************************************************************************)
(* Telemetry publisher.                                                    *)
(***************************************************************************)
\* deque(maxlen=100)
TELEMETRY_MAXLEN == 100

\* a deque built without maxlen
deque_append_unbounded(log, item) == Append(log, item)

\* deque.append on a bounded deque
deque_append(log, item) ==
    IF Len(log) >= TELEMETRY_MAXLEN THEN Append(Tail(log), item) ELSE Append(log, item)

\* publish_telemetry lines 135-143
TelemetryEvent(env, res, lifecycle) ==
    [action_id |-> env.action_id, status |-> res.status, lifecycle |-> lifecycle,
     device_id |-> env.target.device_id, device_class |-> env.target.device_class,
     intent |-> env.intent.name, telemetry |-> res.telemetry]

\* publish_telemetry lines 146-150: the sinks a publish posts to
targets(channel) == IF channel = None THEN {} ELSE cfg.TARGETS

\* ActionResult's default telemetry, the empty dict
EmptyDict == [k \in {} |-> TRUE]

\* list(TELEMETRY_LOG)[start:] with Python's slice indices
slice_from(log, start) ==
    LET n == Len(log)
        from == IF start < 0 THEN (IF n + start < 0 THEN 0 ELSE n + start)
                ELSE (IF start > n THEN n ELSE start)
    IN  SubSeq(log, from + 1, n)

\* telemetry_recent
telemetry_recent(log, limit) == slice_from(log, 0 - limit)

(***************************************************************************)
(* Inputs: the configurations the process is started with and the          *)
(* requests clients send.  A scope is the sequence of its dot-separated    *)
(* segments: "actuation.home" is <<"actuation", "home">>.                  *)
(***************************************************************************)
Registries ==
    {driver_registry, <<MockHomeDriver>>, <<MqttDriver, MockHomeDriver>>}

\* the deployments: without a policy service, every gate setting with
\* every registry and no sink, and the default gate with one registry and
\* two sinks; with a policy service, the default gate with and without
\* sinks; and one that requires the service token.  They give _call_vdi one
\* attempt and leave the heartbeat interval at its default 0; ProxyConfigs
\* has the other settings of the two.
Deployment(allowed, policy, sinks, auth, registries) ==
    [ALLOWED_RISK_LEVELS : allowed,
     POLICY_URL : policy,
     TARGETS : sinks,
     REQUIRED_SCOPES : {{}},
     REQUIRE_AUTH : auth,
     SERVICE_TOKEN : IF auth = {TRUE} THEN {"secret-token"} ELSE {None},
     LOGGING_ONLY : {FALSE},
     VDI_RETRY_ATTEMPTS : {1},
     VDI_RETRY_BACKOFF_BASE : {250},
     VDI_RETRY_MAX_DELAY : {2000},
     VDI_PROGRESS_INTERVAL : {0},
     drivers : registries]

AllowedSettings == {{"low", "medium"}, {"low", "medium", "high"}}

SinkSettings == {{}, {"CONTEXT_URL", "RENDERER_URL"}}

Configs ==
    Deployment(AllowedSettings, {FALSE}, {{}}, {FALSE}, Registries)
    \cup Deployment({{"low", "medium"}}, {FALSE}, SinkSettings, {FALSE},
                    {<<MqttDriver, MockHomeDriver>>})
    \cup Deployment({{"low", "medium"}}, {TRUE}, SinkSettings, {FALSE},
                    {<<MqttDriver, MockHomeDriver>>})
    \cup Deployment({{"low", "medium"}}, {FALSE}, {{}}, {TRUE},
                    {<<MqttDriver, MockHomeDriver>>})

Operations ==
    {<<ActionIntent("turn_on", [topic |-> None]), ActionTarget("lamp-1", "light")>>,
     <<ActionIntent("device.publish", [topic |-> "home/lamp"]), ActionTarget("hub-1", "mqtt")>>}

\* policy_context.scopes is read only when scopes are required
ScopeSets ==
    IF cfg.REQUIRED_SCOPES = {} THEN {{}}
    ELSE {{}, {<<"actuation", "home">>}, {<<"other">>}, {<<"actuation">>}}
         \cup {{<<"other">>, scope} : scope \in cfg.REQUIRED_SCOPES}

Channels == {None, "actuation-events"}

\* the Authorization header is read only when authentication is required
Authorizations ==
    IF cfg.REQUIRE_AUTH THEN {None, "Bearer secret-token", "Bearer wrong"} ELSE {None}

\* the envelopes of request r that pass validation
Envelopes(r) ==
    {e \in [action_id : {r},
            target : {op[2] : op \in Operations},
            intent : {op[1] : op \in Operations},
            risk_level : RiskLevel,
            constraints : [required_confirmations : 0..MaxConfirmations,
                           allowed_risk_levels : {<<>>}],
            policy_context : [scopes : ScopeSets, consent_reference : {None}],
            created_at : {Datetime},
            telemetry_channel : Channels] :
        <<e.intent, e.target>> \in Operations /\ validate_risk(e)}

NoEnvelope == [action_id |-> 0]
NoDecision == [status |-> "none"]
NoResult == [status |-> "none"]
NoResponse == [status_code |-> 0]
NoAnswer == [limit |-> 0 - 1, events |-> <<>>]
NoTask == [action_id |-> 0]
NoCall == [raised |-> FALSE, http |-> FALSE, status_code |-> 0]
\* _call_vdi line 356, before the first attempt
NoAgent == [attempt |-> 0, calls |-> 0, sleeps |-> 0, delays |-> <<>>,
            last_detail |-> "unknown_error",
            replies |-> <<>>]
NoEvent == [action_id |-> 0]
\* before asyncio.create_task(_heartbeat())
NoHeartbeat == [state |-> "none", beats |-> 0, elapsed |-> FALSE, event |-> NoEvent,
                pending |-> {}]
NoRouting == [drivers |-> <<>>, envelope |-> NoEnvelope, routed |-> <<>>]

\* no envelope is being constructed
NoValidation == [risk_level |-> None, allowed_risk_levels |-> <<>>, outcome |-> "none"]

\* evaluate_policy is not being exercised
NoGate == [envelope |-> NoEnvelope, reply |-> <<>>, decisions |-> <<>>]

\* no request has arrived
QuietFor(requests) ==
    /\ pc = [r \in requests |-> "idle"]
    /\ envelope = [r \in requests |-> NoEnvelope]
    /\ authorization = [r \in requests |-> None]
    /\ decision = [r \in requests |-> NoDecision]
    /\ driver = [r \in requests |-> NoDriver]
    /\ result = [r \in requests |-> NoResult]
    /\ response = [r \in requests |-> NoResponse]
    /\ task = [r \in requests |-> NoTask]
    /\ call = [r \in requests |-> NoCall]
    /\ agent = [r \in requests |-> NoAgent]
    /\ done = [r \in requests |-> FALSE]
    /\ hb_task = [r \in requests |-> NoHeartbeat]
    /\ event = [r \in requests |-> NoEvent]
    /\ pending = [r \in requests |-> {}]
    /\ TELEMETRY_LOG = <<>>
    /\ policy_calls = [r \in requests |-> 0]
    /\ executed = [r \in requests |-> <<>>]
    /\ posts = {}
    /\ published = 0
    /\ recent = NoAnswer

Quiet == QuietFor(Requests)

\* the state of the module once imported, under one of the given deployments
Started(configs) ==
    /\ cfg \in configs
    /\ Quiet
    /\ routing = NoRouting
    /\ validation = NoValidation
    /\ gate = NoGate

Init == Started(Configs)

\* an HTTPException, or the handler's return, ends the request
Respond(r, status_code, detail) ==
    /\ response' = [response EXCEPT ![r] = [status_code |-> status_code, detail |-> detail]]
    /\ pc' = [pc EXCEPT ![r] = "done"]

\* get_decision returning a decision that is not permitted
denied_ignored(dec) == FALSE

\* get_decision line 172: TRUE when get_decision raises the 403
denied(dec) == ~dec.permitted

\* actuate without its confirmation branch
confirmation_ignored(dec) == FALSE

\* actuate line 208: TRUE when the handler takes the confirmation branch
awaits_confirmation(dec) == dec.requires_confirmation

\* what actuate returns once its publish_telemetry has returned: the 202 of
\* lines 209-221 or the ActionResult of line 237
Return(r, dec) ==
    IF awaits_confirmation(dec)
    THEN Respond(r, 202, "awaiting_confirmation")
    ELSE Respond(r, 200, "result")

\* publish_telemetry lines 144-150, publish_vdi_telemetry lines 328-335: the
\* append, then the sinks to post to
AppendEvent(r, ev, channel) ==
    /\ TELEMETRY_LOG' = deque_append(TELEMETRY_LOG, ev)
    /\ published' = published + 1
    /\ event' = [event EXCEPT ![r] = ev]
    /\ pending' = [pending EXCEPT ![r] = targets(channel)]

\* publish_telemetry up to its first suspension: the append, then either the
\* return (no channel or no sink) or the start of the fan-out
Publish(r, env, res, lifecycle, dec) ==
    /\ AppendEvent(r, TelemetryEvent(env, res, lifecycle), env.telemetry_channel)
    /\ IF targets(env.telemetry_channel) = {}
       THEN Return(r, dec)
       ELSE /\ pc' = [pc EXCEPT ![r] = "gather"]
            /\ UNCHANGED response

(***************************************************************************)
(* POST /actuate.  FastAPI resolves the handler's dependencies in the      *)
(* order of its parameters: get_decision (which parses the envelope and    *)
(* awaits evaluate_policy), then verify_auth, then the body.  The code     *)
(* between two awaits that suspend runs as one step of the event loop.     *)
(***************************************************************************)
\* actuate line 223
select_driver(env) == IF cfg.LOGGING_ONLY THEN LoggingDriver ELSE route(cfg.drivers, env)

\* actuate lines 224-226: TRUE when the ceiling check raises
exceeds_allowance(env, drv) == RiskLevelGreater(env.risk_level, drv.max_risk_level)

\* scope.startswith("actuation.")
startswith_never(scope) == FALSE
startswith_actuation(scope) == Len(scope) >= 2 /\ scope[1] = "actuation"

\* actuate lines 228-230: TRUE when the scope check raises
missing_scope(env) ==
    LET scopes == env.policy_context.scopes
    IN  /\ cfg.REQUIRED_SCOPES # {}
        /\ \/ scopes = {}
           \/ ~\E scope \in scopes :
                   scope \in cfg.REQUIRED_SCOPES \/ startswith_actuation(scope)

\* actuate lines 232-233
rewrite(env, dec) ==
    IF dec.rewritten_intent # <<>>
    THEN [env EXCEPT !.intent = dec.rewritten_intent[1]]
    ELSE env

\* a DriverError escaping the application unhandled: Starlette answers 500
driver_error_unhandled(exc) ==
    [status_code |-> 500, detail |-> "Internal Server Error"]

\* driver_error_handler: JSONResponse(status_code=400, {"detail": str(exc)})
driver_error_handler(exc) == [status_code |-> 400, detail |-> exc]

\* an HTTPException, or the DriverError of route, ends the request before
\* anything was executed or published
Refuse(r, env, status_code, detail) ==
    /\ Respond(r, status_code, detail)
    /\ envelope' = [envelope EXCEPT ![r] = env]
    /\ UNCHANGED <<driver, event, pending, TELEMETRY_LOG, published>>

\* actuate lines 208-221: the confirmation branch, up to the first
\* suspension of its publish
Confirm(r, env, dec) ==
    /\ Publish(r, env, ActionResult(env.action_id, "pending", None, EmptyDict),
               "awaiting_confirmation", dec)
    /\ envelope' = [envelope EXCEPT ![r] = env]
    /\ UNCHANGED driver

\* actuate lines 223-235: route, the ceiling check, the scope check, the
\* rewrite, and the call of driver.execute, where the handler suspends
RouteAndExecute(r, env, dec) ==
    LET drv == select_driver(env)
    IN  IF drv = NoDriver
        THEN Refuse(r, env, driver_error_handler("No driver registered").status_code,
                    driver_error_handler("No driver registered").detail)
        ELSE IF exceeds_allowance(env, drv)
        THEN Refuse(r, env, 403, "Risk level exceeds driver allowance")
        ELSE IF missing_scope(env)
        THEN Refuse(r, env, 403, "Missing required actuation scope")
        ELSE /\ envelope' = [envelope EXCEPT ![r] = rewrite(env, dec)]
             /\ driver' = [driver EXCEPT ![r] = drv]
             /\ pc' = [pc EXCEPT ![r] = "execute"]
             /\ UNCHANGED <<response, event, pending, TELEMETRY_LOG, published>>

\* actuate taking the confirmation branch only after route, the ceiling
\* check and the scope check
DispatchRouteFirst(r, env, header, dec) ==
    IF denied(dec)
    THEN Refuse(r, env, 403, IF dec.reason # None THEN dec.reason
                             ELSE "Policy rejected action")
    ELSE IF ~verify_auth(header)
    THEN Refuse(r, env, 401, "Invalid or missing service token")
    ELSE IF \/ select_driver(env) = NoDriver
            \/ exceeds_allowance(env, select_driver(env))
            \/ missing_scope(env)
    THEN RouteAndExecute(r, env, dec)
    ELSE IF awaits_confirmation(dec)
    THEN Confirm(r, env, dec)
    ELSE RouteAndExecute(r, env, dec)

\* once evaluate_policy has returned dec: get_decision lines 172-175,
\* verify_auth, and the body of actuate up to its first await that suspends,
\* the fan-out of the awaiting_confirmation event or driver.execute
Dispatch(r, env, header, dec) ==
    IF denied(dec)
    THEN Refuse(r, env, 403, IF dec.reason # None THEN dec.reason
                             ELSE "Policy rejected action")
    ELSE IF ~verify_auth(header)
    THEN Refuse(r, env, 401, "Invalid or missing service token")
    ELSE IF awaits_confirmation(dec)
    THEN Confirm(r, env, dec)
    ELSE RouteAndExecute(r, env, dec)

\* the request arrives; get_decision runs evaluate_policy, which decides
\* locally, and the handler goes on, or which calls client.post for the
\* policy service (lines 102-110): the TypeError of the encoding leaves
\* before anything is sent, nothing catches it, and the request ends as an
\* internal server error; lines 111-125 never run
ActuateRequest(r) ==
    /\ pc[r] = "idle"
    /\ \E env \in Envelopes(r) : \E header \in Authorizations :
        /\ authorization' = [authorization EXCEPT ![r] = header]
        /\ IF evaluate_policy_local(env) # <<>>
           THEN /\ decision' = [decision EXCEPT ![r] = evaluate_policy_local(env)[1]]
                /\ Dispatch(r, env, header, evaluate_policy_local(env)[1])
                /\ UNCHANGED policy_calls
           ELSE /\ policy_calls' = [policy_calls EXCEPT ![r] = @ + 1]
                /\ envelope' = [envelope EXCEPT ![r] = env]
                /\ json_dumps_raises(model_dump(env))
                /\ Respond(r, 500, "Internal Server Error")
                /\ UNCHANGED <<decision, driver, event, pending, TELEMETRY_LOG, published>>
    /\ UNCHANGED <<cfg, validation, gate, task, call, agent, done, hb_task, result, executed, posts, recent, routing>>

\* actuate line 235: driver.execute runs and returns or raises; the
\* DriverError handler (lines 187-189) answers 400
DriverExecute(r) ==
    /\ pc[r] = "execute"
    /\ executed' = [executed EXCEPT ![r] = Append(@, driver[r].name)]
    /\ \E backend \in MqttBackends :
        LET ended == execute(driver[r], envelope[r], backend)
        IN  IF ended.raised
            THEN /\ Respond(r, driver_error_handler(ended.error).status_code,
                            driver_error_handler(ended.error).detail)
                 /\ UNCHANGED result
            ELSE /\ result' = [result EXCEPT ![r] = ended.result]
                 /\ pc' = [pc EXCEPT ![r] = "publish"]
                 /\ UNCHANGED response
    /\ UNCHANGED <<cfg, validation, gate, task, call, agent, done, hb_task, envelope, authorization, decision, driver, event, pending,
                   TELEMETRY_LOG, policy_calls, posts, published, recent, routing>>

\* actuate returning the result without publishing it
PublishCompletedSkipped(r) ==
    /\ pc[r] = "publish"
    /\ Return(r, decision[r])
    /\ UNCHANGED <<cfg, validation, gate, task, call, agent, done, hb_task, envelope, authorization, decision,
                   driver, result, event,
                   pending, TELEMETRY_LOG, policy_calls, executed, posts, published, recent,
                   routing>>

\* actuate line 236: publish_telemetry(envelope, result, channel)
PublishCompleted(r) ==
    /\ pc[r] = "publish"
    /\ Publish(r, envelope[r], result[r], "completed", decision[r])
    /\ UNCHANGED <<cfg, validation, gate, task, call, agent, done, hb_task, envelope, authorization, decision, driver, result,
                   policy_calls, executed, posts, recent, routing>>

\* a post is delivered, or raises: a transport error or the 3 s timeout
SinkOutcomes == {"delivered", "failed"}

\* the states of a request whose publish awaits its gather
Gathering == {"gather", "vdi_started", "vdi_finished"}

\* a gather without return_exceptions: the first failed post raises out of
\* the publish, the other posts are dropped and the request fails
SinkPostFailFast(r) ==
    /\ pc[r] \in Gathering
    /\ \E sink \in pending[r] : \E outcome \in SinkOutcomes :
        /\ posts' = posts \cup {[sink |-> sink, event |-> event[r], outcome |-> outcome]}
        /\ IF outcome = "failed"
           THEN /\ pending' = [pending EXCEPT ![r] = {}]
                /\ Respond(r, 500, "Internal Server Error")
           ELSE /\ pending' = [pending EXCEPT ![r] = @ \ {sink}]
                /\ UNCHANGED <<pc, response>>
    /\ UNCHANGED <<cfg, validation, gate, task, call, agent, done, hb_task, envelope, authorization, decision,
                   driver, result, event,
                   TELEMETRY_LOG, policy_calls, executed, published, recent, routing>>

\* one client.post of the gather (lines 151-157, 336-342) is attempted and
\* succeeds, fails or times out; return_exceptions=True keeps the outcome in
\* the list
SinkPost(r) ==
    /\ pc[r] \in Gathering
    /\ \E sink \in pending[r] : \E outcome \in SinkOutcomes :
        /\ pending' = [pending EXCEPT ![r] = @ \ {sink}]
        /\ posts' = posts \cup {[sink |-> sink, event |-> event[r], outcome |-> outcome]}
    /\ UNCHANGED <<cfg, validation, gate, task, call, agent, done, hb_task, pc, envelope, authorization, decision, driver, result,
                   response, event, TELEMETRY_LOG, policy_calls, executed, published, recent,
                   routing>>

\* the gather has every outcome: publish_telemetry returns, actuate answers
GatherDone(r) ==
    /\ pc[r] = "gather"
    /\ pending[r] = {}
    /\ Return(r, decision[r])
    /\ UNCHANGED <<cfg, validation, gate, task, call, agent, done, hb_task, envelope, authorization, decision,
                   driver, result, event,
                   pending, TELEMETRY_LOG, policy_calls, executed, posts, published, recent,
                   routing>>

(***************************************************************************)
(* POST /vdi/tasks/browse: the handler, the retry loop of _call_vdi and    *)
(* the task of _heartbeat.  vdi_form_submit (lines 452-509) and            *)
(* vdi_download (lines 512-569) have the same structure.                   *)
(***************************************************************************)
\* the tasks of request r: a VdiBrowseRequest with the default channel, or
\* with telemetry_channel null
Tasks(r) ==
    [action_id : {r}, person_id : {"person-1"}, url : {"https://example.org"},
     session_id : {None}, trace_id : {None}, risk_level : {"low"},
     telemetry_channel : {None, "vdi"}]

\* publish_vdi_telemetry lines 311-327; the optional detail is given as a set,
\* empty for None and otherwise holding the one text
VdiEvent(t, status, lifecycle, detail) ==
    LET ev == [action_id |-> t.action_id, status |-> status, lifecycle |-> lifecycle,
               device_id |-> "vdi", device_class |-> "browser", intent |-> "vdi.browse",
               telemetry |-> [person_id |-> t.person_id, session_id |-> t.session_id,
                              url |-> t.url, trace_id |-> t.trace_id]]
    IN  IF detail # {} THEN ev @@ [detail |-> CHOOSE d \in detail : TRUE] ELSE ev

\* _call_vdi line 352: max(1, int(VDI_RETRY_ATTEMPTS))
attempts == IF cfg.VDI_RETRY_ATTEMPTS > 1 THEN cfg.VDI_RETRY_ATTEMPTS ELSE 1

\* what client.post of _call_vdi line 360 gives: an httpx.RequestError with
\* its text, or a response with a status and a body that is a JSON object
\* or is not JSON
AgentReplies ==
    {[kind |-> "RequestError", status_code |-> 0, json |-> FALSE, body |-> "connect failed"],
     [kind |-> "response", status_code |-> 429, json |-> TRUE,
      body |-> [message |-> "too many requests"]],
     [kind |-> "response", status_code |-> 503, json |-> TRUE,
      body |-> [message |-> "agent restarting"]],
     [kind |-> "response", status_code |-> 404, json |-> TRUE,
      body |-> [message |-> "no such session"]],
     [kind |-> "response", status_code |-> 200, json |-> TRUE,
      body |-> [message |-> "page opened"]],
     [kind |-> "response", status_code |-> 200, json |-> FALSE, body |-> "<html>"]}

\* _call_vdi lines 361 and 369: the failures that the loop tries again
retryable_never(reply) == FALSE
retryable(reply) ==
    \/ reply.kind = "RequestError"
    \/ reply.status_code \in {429}
    \/ reply.status_code >= 500

\* _call_vdi line 378
client_error_ignored(reply) == FALSE
client_error(reply) == reply.status_code >= 400

\* _call_vdi lines 363 and 374: no attempt is left
last_attempt_late(r) == agent[r].attempt > attempts
last_attempt(r) == agent[r].attempt >= attempts

\* fastapi.HTTPException as _call_vdi raises it
HTTPException(status_code, detail) ==
    [raised |-> TRUE, http |-> TRUE, status_code |-> status_code, detail |-> detail]

\* how _call_vdi ends on a reply after which it makes no further attempt:
\* lines 364-367 (transport error on the last attempt), 375 (429 or 5xx on
\* the last attempt), 378-385 (any other status from 400 on), 387 (the
\* decoded body, or the exception of resp.json() on a body that is not
\* JSON, which is no HTTPException)
call_vdi_end(reply) ==
    IF reply.kind = "RequestError"
    THEN HTTPException(502, [error |-> "vdi_unavailable", detail |-> reply.body])
    ELSE IF retryable(reply) \/ client_error(reply)
    THEN HTTPException(reply.status_code, reply.body)
    ELSE IF reply.json
    THEN [raised |-> FALSE, http |-> FALSE, status_code |-> 200, detail |-> reply.body]
    ELSE [raised |-> TRUE, http |-> FALSE, status_code |-> 500,
          detail |-> "Internal Server Error"]

\* _heartbeat lines 407-408
heartbeat_always == TRUE
heartbeat_enabled == cfg.VDI_PROGRESS_INTERVAL > 0

\* str(exc.detail), vdi_browse line 442: the text that shows the detail,
\* which is a dict in every HTTPException that call_vdi_end raises
str(detail) == [repr |-> detail]

\* vdi_browse lines 403-426, from the return of the started publish to the
\* first suspension of _call_vdi in its first client.post.  The task of
\* _heartbeat is created before that and runs its first step as soon as the
\* handler suspends, before any reply can arrive: it returns when the
\* interval is not positive and sleeps otherwise.
BeginCall(r) ==
    /\ agent' = [agent EXCEPT ![r] = [NoAgent EXCEPT !.attempt = 1, !.calls = 1]]
    /\ done' = [done EXCEPT ![r] = FALSE]
    /\ hb_task' = [hb_task EXCEPT ![r] =
                      [NoHeartbeat EXCEPT !.state = IF heartbeat_enabled THEN "sleeping"
                                                    ELSE "finished"]]
    /\ pc' = [pc EXCEPT ![r] = "vdi_call"]

\* vdi_browse lines 396-402: the started event, up to the first suspension
\* of its publish or, without one, of _call_vdi
VdiStarted(r, t) ==
    /\ AppendEvent(r, VdiEvent(t, "pending", "started", {}), t.telemetry_channel)
    /\ IF targets(t.telemetry_channel) = {}
       THEN BeginCall(r)
       ELSE /\ pc' = [pc EXCEPT ![r] = "vdi_started"]
            /\ UNCHANGED <<agent, done, hb_task>>
    /\ UNCHANGED response

\* the request arrives: verify_auth, then _policy_gate, which returns at
\* once without a policy service and POSTs to it otherwise
vdi_browse(r) ==
    /\ pc[r] = "idle"
    /\ \E t \in Tasks(r) : \E header \in Authorizations :
        /\ task' = [task EXCEPT ![r] = t]
        /\ authorization' = [authorization EXCEPT ![r] = header]
        /\ IF ~verify_auth(header)
           THEN /\ Respond(r, 401, "Invalid or missing service token")
                /\ UNCHANGED <<event, pending, TELEMETRY_LOG, published, policy_calls,
                               agent, done, hb_task>>
           ELSE IF cfg.POLICY_URL
           THEN /\ policy_calls' = [policy_calls EXCEPT ![r] = @ + 1]
                /\ pc' = [pc EXCEPT ![r] = "vdi_policy"]
                /\ UNCHANGED <<response, event, pending, TELEMETRY_LOG, published,
                               agent, done, hb_task>>
           ELSE /\ VdiStarted(r, t)
                /\ UNCHANGED policy_calls
    /\ UNCHANGED <<cfg, validation, gate, call, envelope, decision, driver, result, executed, posts, recent,
                   routing>>

\* _policy_gate lines 292-298, whose payload of strings is encoded and sent:
\* the POST fails, or the answer is not JSON, or line 297 reads resp.ok, an
\* attribute httpx.Response does not have; the exception is no HTTPException
\* and nothing catches it
policy_gate_reply(r) ==
    /\ pc[r] = "vdi_policy"
    /\ Respond(r, 500, "Internal Server Error")
    /\ UNCHANGED <<cfg, validation, gate, task, call, agent, done, hb_task, envelope, authorization, decision,
                   driver, result, event, pending, TELEMETRY_LOG, policy_calls, executed,
                   posts, published, recent, routing>>

\* the gather of the started event has every outcome: the publish returns
\* and vdi_browse goes on to _call_vdi
VdiStartedPublished(r) ==
    /\ pc[r] = "vdi_started"
    /\ pending[r] = {}
    /\ BeginCall(r)
    /\ UNCHANGED <<cfg, validation, gate, task, call, envelope, authorization, decision, driver, result,
                   response, event, pending, TELEMETRY_LOG, policy_calls, executed, posts,
                   published, recent, routing>>

\* the finally block setting one done shared by every call
VdiFinallyShared(r, out) ==
    /\ done' = [q \in DOMAIN done |-> TRUE]
    /\ IF hb_task[r].state \in {"sleeping", "gather"}
       THEN /\ hb_task' = [hb_task EXCEPT ![r].state = "cancelling"]
            /\ pc' = [pc EXCEPT ![r] = "vdi_join"]
            /\ UNCHANGED response
       ELSE /\ Respond(r, out.status_code, out.detail)
            /\ UNCHANGED hb_task

\* the finally block leaving the heartbeat task alone
VdiFinallyDetached(r, out) ==
    /\ done' = [done EXCEPT ![r] = TRUE]
    /\ Respond(r, out.status_code, out.detail)
    /\ UNCHANGED hb_task

\* vdi_browse lines 445-449, the finally block: done.set(), hb_task.cancel()
\* and await hb_task, which does not suspend when the task has finished
\* already; then the handler returns the result or the exception goes out
VdiFinally(r, out) ==
    /\ done' = [done EXCEPT ![r] = TRUE]
    /\ IF hb_task[r].state \in {"sleeping", "gather"}
       THEN /\ hb_task' = [hb_task EXCEPT ![r].state = "cancelling"]
            /\ pc' = [pc EXCEPT ![r] = "vdi_join"]
            /\ UNCHANGED response
       ELSE /\ Respond(r, out.status_code, out.detail)
            /\ UNCHANGED hb_task

\* vdi_browse lines 426-449 once _call_vdi has ended: the handler publishes
\* the completed event, or on an HTTPException the failed event, up to the
\* first suspension of that publish; any other exception goes straight to
\* the finally block
VdiCallDone(r, out) ==
    /\ call' = [call EXCEPT ![r] = out]
    /\ IF out.raised /\ ~out.http
       THEN /\ VdiFinally(r, out)
            /\ UNCHANGED <<event, pending, TELEMETRY_LOG, published>>
       ELSE /\ AppendEvent(r, IF out.raised
                              THEN VdiEvent(task[r], "error", "failed", {str(out.detail)})
                              ELSE VdiEvent(task[r], "ok", "completed", {}),
                           task[r].telemetry_channel)
            /\ IF targets(task[r].telemetry_channel) = {}
               THEN VdiFinally(r, out)
               ELSE /\ pc' = [pc EXCEPT ![r] = "vdi_finished"]
                    /\ UNCHANGED <<response, done, hb_task>>

\* Python's min of two numbers
min(a, b) == IF b < a THEN b ELSE a

\* the backoff without the cap of VDI_RETRY_MAX_DELAY_SECONDS
delay_uncapped(attempt) == cfg.VDI_RETRY_BACKOFF_BASE * 2 ^ (attempt - 1)

\* _call_vdi lines 367 and 376: the delay slept after a retryable failure of
\* this attempt, in milliseconds
delay(attempt) ==
    min(cfg.VDI_RETRY_MAX_DELAY, cfg.VDI_RETRY_BACKOFF_BASE * 2 ^ (attempt - 1))

\* _call_vdi lines 359-387: the client.post of the current attempt ends.  A
\* failure that can be retried, on an attempt before the last, is noted in
\* last_detail and followed by the backoff sleep; anything else ends
\* _call_vdi and the handler goes on
call_vdi_reply(r) ==
    /\ pc[r] = "vdi_call"
    /\ \E reply \in AgentReplies :
        LET seen == [agent[r] EXCEPT !.replies = Append(@, reply),
                                     !.last_detail = IF retryable(reply) THEN reply.body
                                                     ELSE @]
        IN  IF retryable(reply) /\ ~last_attempt(r)
            THEN /\ agent' = [agent EXCEPT ![r] =
                               [seen EXCEPT !.sleeps = @ + 1,
                                            !.delays = Append(@, delay(seen.attempt))]]
                 /\ pc' = [pc EXCEPT ![r] = "vdi_backoff"]
                 /\ UNCHANGED <<call, done, hb_task, response, event, pending, TELEMETRY_LOG,
                                published>>
            ELSE /\ agent' = [agent EXCEPT ![r] = seen]
                 /\ VdiCallDone(r, call_vdi_end(reply))
    /\ UNCHANGED <<cfg, validation, gate, task, envelope, authorization, decision, driver, result,
                   policy_calls, executed, posts, recent, routing>>

\* _call_vdi lines 368 and 376-377: the backoff sleep is over, the loop goes
\* to the next attempt and its client.post
call_vdi_backoff(r) ==
    /\ pc[r] = "vdi_backoff"
    /\ agent' = [agent EXCEPT ![r].attempt = @ + 1, ![r].calls = @ + 1]
    /\ pc' = [pc EXCEPT ![r] = "vdi_call"]
    /\ UNCHANGED <<cfg, validation, gate, task, call, done, hb_task, envelope, authorization, decision, driver,
                   result, response, event, pending, TELEMETRY_LOG, policy_calls, executed,
                   posts, published, recent, routing>>

\* the gather of the completed or failed event has every outcome: the
\* publish returns and vdi_browse reaches its finally block
VdiFinishedPublished(r) ==
    /\ pc[r] = "vdi_finished"
    /\ pending[r] = {}
    /\ VdiFinally(r, call[r])
    /\ UNCHANGED <<cfg, validation, gate, task, call, agent, envelope, authorization, decision, driver, result,
                   event, pending, TELEMETRY_LOG, policy_calls, executed, posts, published,
                   recent, routing>>

\* the in_progress event of _heartbeat lines 413-420; elapsed_ms is counted
\* in intervals
HeartbeatEvent(t, beats) ==
    LET ev == VdiEvent(t, "pending", "in_progress", {})
    IN  [ev EXCEPT !.telemetry = @ @@ [elapsed_ms |-> beats]]

\* _heartbeat lines 410-420: the sleep of one interval is over.  With done
\* set the loop ends; otherwise the in_progress event is published, up to
\* the first suspension of that publish or, without one, to the next sleep.
\* elapsed records that an interval ran out while _call_vdi was running.
heartbeat_tick_silent(r) ==
    /\ hb_task[r].state = "sleeping"
    /\ hb_task[r].beats < MaxBeats
    /\ hb_task' = [hb_task EXCEPT ![r].beats = @ + 1,
                                  ![r].elapsed = @ \/ pc[r] \in {"vdi_call", "vdi_backoff"}]
    /\ UNCHANGED <<TELEMETRY_LOG, published>>
    /\ UNCHANGED <<cfg, validation, gate, task, call, agent, done, pc, envelope, authorization, decision,
                   driver, result, response, event, pending, policy_calls, executed, posts,
                   recent, routing>>
heartbeat_tick(r) ==
    /\ hb_task[r].state = "sleeping"
    /\ hb_task[r].beats < MaxBeats
    /\ IF done[r]
       THEN /\ hb_task' = [hb_task EXCEPT ![r].state = "finished"]
            /\ UNCHANGED <<TELEMETRY_LOG, published>>
       ELSE LET ev == HeartbeatEvent(task[r], hb_task[r].beats + 1)
                sinks == targets(task[r].telemetry_channel)
            IN  /\ TELEMETRY_LOG' = deque_append(TELEMETRY_LOG, ev)
                /\ published' = published + 1
                /\ hb_task' = [hb_task EXCEPT
                      ![r] = [state |-> IF sinks = {} THEN "sleeping" ELSE "gather",
                              beats |-> @.beats + 1,
                              elapsed |-> @.elapsed \/ pc[r] \in {"vdi_call", "vdi_backoff"},
                              event |-> ev,
                              pending |-> sinks]]
    /\ UNCHANGED <<cfg, validation, gate, task, call, agent, done, pc, envelope, authorization, decision,
                   driver, result, response, event, pending, policy_calls, executed, posts,
                   recent, routing>>

\* publish_vdi_telemetry lines 336-344 inside _heartbeat: one POST of the
\* gather ends, delivered or not
heartbeat_post(r) ==
    /\ hb_task[r].state = "gather"
    /\ \E sink \in hb_task[r].pending : \E outcome \in SinkOutcomes :
        /\ posts' = posts \cup {[sink |-> sink, event |-> hb_task[r].event,
                                 outcome |-> outcome]}
        /\ hb_task' = [hb_task EXCEPT ![r].pending = @ \ {sink}]
    /\ UNCHANGED <<cfg, validation, gate, task, call, agent, done, pc, envelope, authorization, decision,
                   driver, result, response, event, pending, TELEMETRY_LOG, policy_calls,
                   executed, published, recent, routing>>

\* the gather of the in_progress event has every outcome: the publish
\* returns, done is not set (line 410) and _heartbeat sleeps again
heartbeat_published(r) ==
    /\ hb_task[r].state = "gather"
    /\ hb_task[r].pending = {}
    /\ hb_task' = [hb_task EXCEPT ![r].state = IF done[r] THEN "finished" ELSE "sleeping"]
    /\ UNCHANGED <<cfg, validation, gate, task, call, agent, done, pc, envelope, authorization, decision,
                   driver, result, response, event, pending, TELEMETRY_LOG, policy_calls,
                   executed, posts, published, recent, routing>>

\* the CancelledError of hb_task.cancel() is thrown into _heartbeat where
\* it is suspended, in its sleep or in the gather of its publish, whose
\* except Exception does not catch it: the task ends
heartbeat_cancelled(r) ==
    /\ hb_task[r].state = "cancelling"
    /\ hb_task' = [hb_task EXCEPT ![r].state = "cancelled"]
    /\ UNCHANGED <<cfg, validation, gate, task, call, agent, done, pc, envelope, authorization, decision,
                   driver, result, response, event, pending, TELEMETRY_LOG, policy_calls,
                   executed, posts, published, recent, routing>>

\* vdi_browse lines 448-449: hb_task has ended, await hb_task returns with
\* its CancelledError suppressed, and the handler returns or raises
VdiJoined(r) ==
    /\ pc[r] = "vdi_join"
    /\ hb_task[r].state = "cancelled"
    /\ Respond(r, call[r].status_code, call[r].detail)
    /\ UNCHANGED <<cfg, validation, gate, task, call, agent, done, hb_task, envelope, authorization, decision,
                   driver, result, event, pending, TELEMETRY_LOG, policy_calls, executed,
                   posts, published, recent, routing>>

\* Spec runs the deployments of Configs, which leave VDI_RETRY_ATTEMPTS at 1
\* and the heartbeat interval at its default 0: there _call_vdi never sleeps
\* and _heartbeat returns at once, so the steps of the backoff and of the
\* heartbeat are never enabled and Next leaves them to NextProxy
Next ==
    \/ \E r \in Requests : ActuateRequest(r)
    \/ \E r \in Requests : DriverExecute(r)
    \/ \E r \in Requests : PublishCompleted(r)
    \/ \E r \in Requests : SinkPost(r)
    \/ \E r \in Requests : GatherDone(r)
    \/ \E r \in Requests : vdi_browse(r)
    \/ \E r \in Requests : policy_gate_reply(r)
    \/ \E r \in Requests : VdiStartedPublished(r)
    \/ \E r \in Requests : call_vdi_reply(r)
    \/ \E r \in Requests : VdiFinishedPublished(r)

Spec == Init /\ [][Next]_vars

(***************************************************************************)
(* One call of the task proxy under every retry budget and heartbeat       *)
(* setting: POST /vdi/tasks/browse of the first request, without a policy  *)
(* service, with no telemetry sink or one.                                 *)
(***************************************************************************)
ProxyRequests == {r \in Requests : \A q \in Requests : r <= q}

Intervals == {-1, 0, 1}

ProxyConfigs ==
    {[c EXCEPT !.VDI_RETRY_ATTEMPTS = n, !.VDI_PROGRESS_INTERVAL = i] :
        c \in Deployment({{"low", "medium"}}, {FALSE}, {{}, {"CONTEXT_URL"}}, {FALSE},
                         {<<MqttDriver, MockHomeDriver>>}),
        n \in 0..MaxAttempts, i \in Intervals}

InitProxy == Started(ProxyConfigs)

NextProxy ==
    \/ \E r \in ProxyRequests : vdi_browse(r)
    \/ \E r \in ProxyRequests : SinkPost(r)
    \/ \E r \in ProxyRequests : VdiStartedPublished(r)
    \/ \E r \in ProxyRequests : call_vdi_reply(r)
    \/ \E r \in ProxyRequests : call_vdi_backoff(r)
    \/ \E r \in ProxyRequests : VdiFinishedPublished(r)
    \/ \E r \in ProxyRequests : heartbeat_tick(r)
    \/ \E r \in ProxyRequests : heartbeat_post(r)
    \/ \E r \in ProxyRequests : heartbeat_published(r)
    \/ \E r \in ProxyRequests : heartbeat_cancelled(r)
    \/ \E r \in ProxyRequests : VdiJoined(r)

SpecProxy == InitProxy /\ [][NextProxy]_vars

(***************************************************************************)
(* The local log under many publishes, and GET /telemetry/recent.  The     *)
(* k-th event published is that of a request with action_id k whose        *)
(* decision requires confirmation (actuate lines 215-220).  recent holds   *)
(* the answer of the last query until the next event is published.         *)
(***************************************************************************)
DefaultConfig ==
    [ALLOWED_RISK_LEVELS |-> {"low", "medium"}, POLICY_URL |-> FALSE, TARGETS |-> {},
     REQUIRED_SCOPES |-> {}, REQUIRE_AUTH |-> FALSE, SERVICE_TOKEN |-> None,
     LOGGING_ONLY |-> FALSE, VDI_RETRY_ATTEMPTS |-> 3, VDI_RETRY_BACKOFF_BASE |-> 250,
     VDI_RETRY_MAX_DELAY |-> 2000, VDI_PROGRESS_INTERVAL |-> 0,
     drivers |-> driver_registry]

RingEnvelope(k) ==
    [action_id |-> k,
     target |-> ActionTarget("lamp-1", "light"),
     intent |-> ActionIntent("turn_on", [topic |-> None]),
     risk_level |-> "low",
     constraints |-> [required_confirmations |-> 1, allowed_risk_levels |-> <<>>],
     policy_context |-> [scopes |-> {}, consent_reference |-> None],
     created_at |-> Datetime,
     telemetry_channel |-> None]

RingEvent(k) ==
    TelemetryEvent(RingEnvelope(k), ActionResult(k, "pending", None, EmptyDict),
                   "awaiting_confirmation")

\* the limits asked of /telemetry/recent: the small ones and those around
\* the capacity of the log
Limits ==
    (0..MaxLimitOver) \cup ((TELEMETRY_MAXLEN - MaxLimitOver)..(TELEMETRY_MAXLEN + MaxLimitOver))

InitRing == Started({DefaultConfig})

\* publish_telemetry line 144, for the next event
RingPublish ==
    /\ published < MaxPublishes
    /\ TELEMETRY_LOG' = deque_append(TELEMETRY_LOG, RingEvent(published + 1))
    /\ published' = published + 1
    /\ recent' = NoAnswer
    /\ UNCHANGED <<cfg, validation, gate, task, call, agent, done, hb_task, pc, envelope, authorization, decision, driver, result,
                   response, event, pending, policy_calls, executed, posts, routing>>

\* GET /telemetry/recent?limit=N
TelemetryRecent ==
    /\ \E limit \in Limits :
           recent' = [limit |-> limit, events |-> telemetry_recent(TELEMETRY_LOG, limit)]
    /\ UNCHANGED <<cfg, validation, gate, task, call, agent, done, hb_task, pc, envelope, authorization, decision, driver, result,
                   response, event, pending, TELEMETRY_LOG, policy_calls, executed, posts,
                   published, routing>>

NextRing == RingPublish \/ TelemetryRecent

SpecRing == InitRing /\ [][NextRing]_vars

(***************************************************************************)
(* DriverRegistry.route as a function of the registry and the envelope.   *)
(***************************************************************************)
\* the drivers a registry is built of
Drivers ==
    {LoggingDriver, DesktopAutomationDriver, MockHomeDriver, MockRobotDriver, MqttDriver}

\* largest registry of the routing specification
MaxDrivers == 2

RECURSIVE DriverLists(_)
\* the registries of at most n drivers
DriverLists(n) ==
    IF n = 0 THEN {<<>>}
    ELSE DriverLists(n - 1)
         \cup {Append(l, d) : l \in {x \in DriverLists(n - 1) : Len(x) = n - 1}, d \in Drivers}

RouteIntents == {"turn_on", "device.publish", "robot.stop", "desktop.command"}

RouteClasses == {"light", "mqtt", "robot"}

RouteEnvelopes ==
    {[RingEnvelope(1) EXCEPT !.intent = ActionIntent(i, [topic |-> None]),
                             !.target = ActionTarget("device-1", c)] :
        i \in RouteIntents, c \in RouteClasses}

InitRoute ==
    /\ cfg = DefaultConfig
    /\ Quiet
    /\ validation = NoValidation
    /\ gate = NoGate
    /\ routing \in [drivers : DriverLists(MaxDrivers) \cup {driver_registry},
                    envelope : RouteEnvelopes,
                    routed : {<<>>}]

\* DriverRegistry(drivers).route(envelope)
RouteEnvelope ==
    /\ routing.routed = <<>>
    /\ routing' = [routing EXCEPT !.routed = <<route(routing.drivers, routing.envelope)>>]
    /\ UNCHANGED <<cfg, validation, gate, task, call, agent, done, hb_task, pc, envelope, authorization, decision, driver, result,
                   response, event, pending, TELEMETRY_LOG, policy_calls, executed, posts,
                   published, recent>>

NextRoute == RouteEnvelope

SpecRoute == InitRoute /\ [][NextRoute]_vars

(***************************************************************************)
(* schemas.py: the construction of an ActionEnvelope from a risk level and *)
(* a value of constraints.allowed_risk_levels.                             *)
(***************************************************************************)
\* longest allowed_risk_levels list a client sends
MaxAllowedLen == 3

RECURSIVE RiskLists(_)
\* the lists of at most n risk levels
RiskLists(n) ==
    IF n = 0 THEN {<<>>}
    ELSE RiskLists(n - 1)
         \cup {Append(l, x) : l \in {y \in RiskLists(n - 1) : Len(y) = n - 1}, x \in RiskLevel}

\* the envelope ActionEnvelope(...) validates
Candidate(risk_level, allowed_risk_levels) ==
    [RingEnvelope(1) EXCEPT !.risk_level = risk_level,
                            !.constraints.allowed_risk_levels = allowed_risk_levels]

InitSchema ==
    /\ cfg = DefaultConfig
    /\ Quiet
    /\ routing = NoRouting
    /\ gate = NoGate
    /\ validation \in [risk_level : RiskLevel,
                       allowed_risk_levels : {<<>>} \cup {<<l>> : l \in RiskLists(MaxAllowedLen)},
                       outcome : {"none"}]

\* ActionEnvelope(...): the model validator runs and the envelope is
\* returned, or pydantic raises ValidationError
Construct ==
    /\ validation.outcome = "none"
    /\ validation' =
          [validation EXCEPT !.outcome =
              IF validate_risk(Candidate(validation.risk_level,
                                         validation.allowed_risk_levels))
              THEN "valid" ELSE "ValidationError"]
    /\ UNCHANGED <<cfg, gate, pc, envelope, authorization, decision, driver, result, response,
                   task, call, agent, done, hb_task, event, pending, TELEMETRY_LOG,
                   policy_calls, executed, posts, published, recent, routing>>

NextSchema == Construct

SpecSchema == InitSchema /\ [][NextSchema]_vars

(***************************************************************************)
(* One POST /actuate under deployments that require scopes or not, with a  *)
(* registry that has a driver for every operation or lacks one, every      *)
(* risk level allowed at the gate, no policy service and no sink.          *)
(***************************************************************************)
DispatchRequests == ProxyRequests

\* ACTUATION_REQUIRED_SCOPES: unset, or home.control
ScopeSettings == {{}, {<<"home", "control">>}}

DispatchConfigs ==
    {[c EXCEPT !.REQUIRED_SCOPES = scopes] :
        c \in Deployment({{"low", "medium", "high"}}, {FALSE}, {{}}, {FALSE},
                         {<<MqttDriver>>, <<MqttDriver, MockHomeDriver>>}),
        scopes \in ScopeSettings}

InitDispatch == Started(DispatchConfigs)

NextDispatch ==
    \/ \E r \in DispatchRequests : ActuateRequest(r)
    \/ \E r \in DispatchRequests : DriverExecute(r)
    \/ \E r \in DispatchRequests : PublishCompleted(r)

SpecDispatch == InitDispatch /\ [][NextDispatch]_vars

(***************************************************************************)
(* evaluate_policy applied to an envelope, over and over, and the          *)
(* statements of evaluate_policy that follow the answer of the policy      *)
(* service applied to an answer.                                           *)
(***************************************************************************)
MaxEvaluations == 2

GateConfigs == Deployment(AllowedSettings, {FALSE, TRUE}, {{}}, {FALSE}, {driver_registry})

GateEnvelopes ==
    {[RingEnvelope(1) EXCEPT !.risk_level = level,
                             !.constraints.required_confirmations = n] :
        level \in RiskLevel, n \in 0..MaxConfirmations}

\* the intent a policy service puts in place of the requested one
RewrittenIntent == ActionIntent("dim", [topic |-> None])

\* responses of POST {POLICY_URL}/evaluate: a status code and a JSON object
\* in which every key may be absent
PolicyResponses ==
    [status_code : {200, 403, 500},
     data : [permitted : {<<>>, <<TRUE>>, <<FALSE>>},
             status : {<<>>, <<"permitted">>},
             reason : {<<>>, <<"consent on file">>},
             requires_confirmation : {<<>>, <<TRUE>>},
             rewritten_intent : {<<>>, <<RewrittenIntent>>}]]

InitGate ==
    /\ cfg \in GateConfigs
    /\ Quiet
    /\ routing = NoRouting
    /\ validation = NoValidation
    /\ gate \in {g \in [envelope : GateEnvelopes,
                        reply : {<<>>} \cup {<<resp>> : resp \in PolicyResponses},
                        decisions : {<<>>}] :
                    g.reply # <<>> => /\ cfg.POLICY_URL
                                      /\ evaluate_policy_local(g.envelope) = <<>>}

\* evaluate_policy returning at lines 83-100
EvaluateLocal ==
    /\ gate.reply = <<>>
    /\ Len(gate.decisions) < MaxEvaluations
    /\ evaluate_policy_local(gate.envelope) # <<>>
    /\ gate' = [gate EXCEPT !.decisions =
                   Append(@, evaluate_policy_local(gate.envelope)[1])]
    /\ UNCHANGED <<cfg, validation, pc, envelope, authorization, decision, driver, result,
                   response, task, call, agent, done, hb_task, event, pending,
                   TELEMETRY_LOG, policy_calls, executed, posts, published, recent, routing>>

\* evaluate_policy returning at lines 111-125, the policy service having
\* answered
PolicyAnswered ==
    /\ gate.reply # <<>>
    /\ gate.decisions = <<>>
    /\ gate' = [gate EXCEPT !.decisions =
                   <<evaluate_policy_response(gate.reply[1], gate.envelope.risk_level)>>]
    /\ UNCHANGED <<cfg, validation, pc, envelope, authorization, decision, driver, result,
                   response, task, call, agent, done, hb_task, event, pending,
                   TELEMETRY_LOG, policy_calls, executed, posts, published, recent, routing>>

NextGate ==
    \/ EvaluateLocal
    \/ PolicyAnswered

SpecGate == InitGate /\ [][NextGate]_vars

(***************************************************************************)
(* One task-proxy call under deployments that differ in the number of      *)
(* attempts, the base of the backoff and its cap, in milliseconds; no      *)
(* sink and no heartbeat.                                                  *)
(***************************************************************************)
\* VDI_RETRY_BACKOFF_BASE_SECONDS: 0, the default 0.25, 1
BackoffBases == {0, 250, 1000}

\* VDI_RETRY_MAX_DELAY_SECONDS: 0.4, the default 2.0
BackoffCaps == {400, 2000}

BackoffConfigs ==
    {[c EXCEPT !.VDI_RETRY_ATTEMPTS = n, !.VDI_RETRY_BACKOFF_BASE = base,
               !.VDI_RETRY_MAX_DELAY = cap] :
        c \in Deployment({{"low", "medium"}}, {FALSE}, {{}}, {FALSE},
                         {<<MqttDriver, MockHomeDriver>>}),
        n \in 1..MaxAttempts, base \in BackoffBases, cap \in BackoffCaps}

InitBackoff == Started(BackoffConfigs)

NextBackoff ==
    \/ \E r \in ProxyRequests : vdi_browse(r)
    \/ \E r \in ProxyRequests : call_vdi_reply(r)
    \/ \E r \in ProxyRequests : call_vdi_backoff(r)

SpecBackoff == InitBackoff /\ [][NextBackoff]_vars

(***************************************************************************)
(* One request, POST /actuate or POST /vdi/tasks/browse, under deployments *)
(* that require authentication, with ACTUATION_SERVICE_TOKEN unset, empty  *)
(* or set; no policy service, no sink, the heartbeat enabled.              *)
(***************************************************************************)
ServiceTokens == {None, "", "secret-token"}

AuthConfigs ==
    {[c EXCEPT !.SERVICE_TOKEN = token, !.VDI_PROGRESS_INTERVAL = 1] :
        c \in Deployment({{"low", "medium"}}, {FALSE}, {{}}, {TRUE},
                         {<<MqttDriver, MockHomeDriver>>}),
        token \in ServiceTokens}

InitAuth == Started(AuthConfigs)

NextAuth ==
    \/ \E r \in ProxyRequests : ActuateRequest(r)
    \/ \E r \in ProxyRequests : DriverExecute(r)
    \/ \E r \in ProxyRequests : PublishCompleted(r)
    \/ \E r \in ProxyRequests : vdi_browse(r)
    \/ \E r \in ProxyRequests : call_vdi_reply(r)
    \/ \E r \in ProxyRequests : heartbeat_tick(r)
    \/ \E r \in ProxyRequests : heartbeat_cancelled(r)
    \/ \E r \in ProxyRequests : VdiJoined(r)

SpecAuth == InitAuth /\ [][NextAuth]_vars

(***************************************************************************)
(* Two task-proxy calls in flight at once, each with its own done and      *)
(* its own heartbeat task: one attempt each, the heartbeat enabled, no     *)
(* sink.                                                                   *)
(***************************************************************************)
\* the two calls in flight
Calls == {1, 2}

PairConfigs ==
    {[c EXCEPT !.VDI_PROGRESS_INTERVAL = 1] :
        c \in Deployment({{"low", "medium"}}, {FALSE}, {{}}, {FALSE},
                         {<<MqttDriver, MockHomeDriver>>})}

InitPair ==
    /\ cfg \in PairConfigs
    /\ QuietFor(Calls)
    /\ routing = NoRouting
    /\ validation = NoValidation
    /\ gate = NoGate

NextPair ==
    \/ \E r \in Calls : vdi_browse(r)
    \/ \E r \in Calls : call_vdi_reply(r)
    \/ \E r \in Calls : heartbeat_tick(r)
    \/ \E r \in Calls : heartbeat_cancelled(r)
    \/ \E r \in Calls : VdiJoined(r)

SpecPair == InitPair /\ [][NextPair]_vars

(***************************************************************************)
(* Properties.                                                             *)
(***************************************************************************)
\* the positions of the log holding an event of request r with a lifecycle
EventsOf(r, lifecycle) ==
    {i \in DOMAIN TELEMETRY_LOG :
        TELEMETRY_LOG[i].action_id = r /\ TELEMETRY_LOG[i].lifecycle = lifecycle}

\* the positions of the log holding any event of request r
AllEventsOf(r) == {i \in DOMAIN TELEMETRY_LOG : TELEMETRY_LOG[i].action_id = r}

\* the sink posts attempted for request r
PostsOf(r) == {p \in posts : p.event.action_id = r}

\* request r is a POST /actuate
Dispatched(r) == envelope[r] # NoEnvelope

Decided(r) == decision[r] # NoDecision

Min(a, b) == IF a < b THEN a ELSE b

\* the severity order of the risk levels: low < medium < high
Severity(level) ==
    CASE level = "low" -> 0
      [] level = "medium" -> 1
      [] level = "high" -> 2

C2_ConfirmationShortCircuit ==
    \A r \in Requests :
        (Decided(r) /\ decision[r].requires_confirmation)
        => /\ executed[r] = <<>>
           /\ driver[r] = NoDriver
           /\ EventsOf(r, "completed") = {}
           /\ Cardinality(EventsOf(r, "awaiting_confirmation")) <= 1
           /\ (pc[r] = "done" /\ verify_auth(authorization[r]))
              => /\ Cardinality(EventsOf(r, "awaiting_confirmation")) = 1
                 /\ response[r].status_code = 202

\* C2: required_confirmations = 1 without a policy service ends in 202 with
\* one awaiting_confirmation event.
C2_Witness ==
    \E r \in Requests :
        /\ pc[r] = "done"
        /\ Dispatched(r)
        /\ ~cfg.POLICY_URL
        /\ envelope[r].constraints.required_confirmations >= 1
        /\ response[r].status_code = 202
        /\ Cardinality(EventsOf(r, "awaiting_confirmation")) = 1
        /\ executed[r] = <<>>

\* C3: a dispatch whose decision has permitted = false is answered 403, no
\* executor is routed to or invoked, and no telemetry event of any lifecycle
\* is appended or sent to a sink for that action.
C3_DenialStopsDispatch ==
    \A r \in Requests :
        (Decided(r) /\ ~decision[r].permitted)
        => /\ pc[r] = "done"
           /\ response[r].status_code = 403
           /\ driver[r] = NoDriver
           /\ executed[r] = <<>>
           /\ AllEventsOf(r) = {}
           /\ PostsOf(r) = {}

\* C3: a request is denied at the gate of a deployment with sinks, and asked
\* for its telemetry to be published.
C3_Witness ==
    \E r \in Requests :
        /\ pc[r] = "done"
        /\ Decided(r)
        /\ ~decision[r].permitted
        /\ envelope[r].telemetry_channel # None
        /\ cfg.TARGETS # {}
        /\ response[r].status_code = 403
        /\ TELEMETRY_LOG = <<>>

\* a request that got as far as the risk ceiling check of its driver
ReachedCeiling(r) ==
    /\ Decided(r)
    /\ decision[r].permitted
    /\ ~decision[r].requires_confirmation
    /\ verify_auth(authorization[r])
    /\ select_driver(envelope[r]) # NoDriver

\* C4: the dispatcher rejects an action at the ceiling check, without invoking
\* the executor, exactly when the envelope's risk level is strictly more
\* severe than the executor's ceiling under low < medium < high.
C4_RiskCeilingBySeverity ==
    \A r \in Requests :
        ReachedCeiling(r)
        => ((/\ pc[r] = "done"
             /\ response[r].status_code = 403
             /\ response[r].detail = "Risk level exceeds driver allowance"
             /\ executed[r] = <<>>)
            <=> Severity(envelope[r].risk_level)
                    > Severity(select_driver(envelope[r]).max_risk_level))

\* C6: turn_on of a light at risk low with no confirmations, no policy
\* service, the default allowed risk levels, no required scopes and the
\* executor list [MockHome] ends Completed with status completed and driver
\* mock-home.
C6_HappyPath ==
    \A r \in Requests :
        (/\ pc[r] = "done"
         /\ Dispatched(r)
         /\ cfg.drivers = <<MockHomeDriver>>
         /\ ~cfg.POLICY_URL
         /\ cfg.ALLOWED_RISK_LEVELS = {"low", "medium"}
         /\ cfg.REQUIRED_SCOPES = {}
         /\ ~cfg.REQUIRE_AUTH
         /\ envelope[r].intent.name = "turn_on"
         /\ envelope[r].target.device_class = "light"
         /\ envelope[r].risk_level = "low"
         /\ envelope[r].constraints.required_confirmations = 0)
        => /\ response[r].status_code = 200
           /\ result[r].status = "completed"
           /\ result[r].driver = "mock-home"

\* C7: a dispatch invokes at most one executor, at most once; one that
\* answered 200 invoked the chosen executor exactly once, and the log holds
\* exactly one completed event of it, carrying the result's status and
\* telemetry; a completed event is only appended once the executor returned.
C7_OneExecutionPerCompletedDispatch ==
    \A r \in Requests :
        /\ Len(executed[r]) <= 1
        /\ Dispatched(r)
           => /\ Cardinality(EventsOf(r, "completed")) <= 1
              /\ EventsOf(r, "completed") # {}
                 => /\ Len(executed[r]) = 1
                    /\ result[r] # NoResult
              /\ (pc[r] = "done" /\ response[r].status_code = 200)
                 => /\ executed[r] = <<driver[r].name>>
                    /\ result[r] # NoResult
                    /\ \E i \in EventsOf(r, "completed") :
                          /\ EventsOf(r, "completed") = {i}
                          /\ TELEMETRY_LOG[i].status = result[r].status
                          /\ TELEMETRY_LOG[i].telemetry = result[r].telemetry

\* C7: a dispatch ends Completed.
C7_Witness ==
    \E r \in Requests :
        /\ pc[r] = "done"
        /\ Dispatched(r)
        /\ response[r].status_code = 200
        /\ Len(executed[r]) = 1
        /\ Cardinality(EventsOf(r, "completed")) = 1

\* request r is a POST /vdi/tasks/browse
Proxied(r) == task[r] # NoTask

\* the sinks the publishes of request r post to
SinksOf(r) ==
    IF Dispatched(r) THEN targets(envelope[r].telemetry_channel)
    ELSE IF Proxied(r) THEN targets(task[r].telemetry_channel)
    ELSE {}

\* the sinks a post of event ev was attempted to
Attempted(ev) == {p.sink : p \in {q \in posts : q.event = ev}}

Logged(ev) == \E i \in DOMAIN TELEMETRY_LOG : TELEMETRY_LOG[i] = ev

\* C10: an event is in the local log before any sink is posted to and stays
\* there; whatever posts fail, every configured sink is posted to and the
\* publish returns; and the request answers what it answers when every post
\* is delivered: a dispatch 202 after awaiting_confirmation and 200 after
\* completed, a task proxy what the call to the agent gave.
C10_TelemetryFailureIsolation ==
    /\ \A p \in posts : Logged(p.event)
    /\ \A r \in Requests :
        /\ pc[r] \in Gathering
           => /\ Logged(event[r])
              /\ Attempted(event[r]) \cup pending[r] = SinksOf(r)
        /\ \A i \in AllEventsOf(r) :
              ~(pc[r] \in Gathering /\ event[r] = TELEMETRY_LOG[i])
              => Attempted(TELEMETRY_LOG[i]) = SinksOf(r)
        /\ (pc[r] = "done" /\ Dispatched(r) /\ AllEventsOf(r) # {})
           => /\ Cardinality(AllEventsOf(r)) = 1
              /\ response[r].status_code =
                    IF decision[r].requires_confirmation THEN 202 ELSE 200
        /\ (pc[r] = "done" /\ Proxied(r) /\ AllEventsOf(r) # {})
           => /\ call[r] # NoCall
              /\ response[r].status_code = call[r].status_code
              /\ Cardinality(AllEventsOf(r)) = IF call[r].raised /\ ~call[r].http THEN 1 ELSE 2

\* C10: a dispatch is Completed although the post to one sink failed, and the
\* other sink was posted to as well.
C10_Witness ==
    \E r \in Requests :
        /\ pc[r] = "done"
        /\ Dispatched(r)
        /\ response[r].status_code = 200
        /\ \E p \in PostsOf(r) : p.outcome = "failed"
        /\ {p.sink : p \in PostsOf(r)} = {"CONTEXT_URL", "RENDERER_URL"}
        /\ Cardinality(AllEventsOf(r)) = 1

\* a task proxy answers 200 although every post of its started event failed
C10_ProxyReached ==
    \E r \in Requests :
        /\ pc[r] = "done"
        /\ Proxied(r)
        /\ response[r].status_code = 200
        /\ Cardinality(AllEventsOf(r)) = 2
        /\ \A p \in PostsOf(r) : p.event.lifecycle = "started" => p.outcome = "failed"
        /\ Attempted(event[r]) = {"CONTEXT_URL", "RENDERER_URL"}

\* the drivers of the routing specification's registry able to handle its
\* envelope, by list index
Capable == {i \in DOMAIN routing.drivers : can_handle(routing.drivers[i], routing.envelope)}

\* routing's envelope is a turn_on of a light
TurnOnLight ==
    /\ routing.envelope.intent.name = "turn_on"
    /\ routing.envelope.target.device_class = "light"

\* C5: route returns the capable executor of lowest list index, and fails
\* exactly when no executor of the list is capable; so a turn_on of a light
\* goes to the wildcard executor when it is listed before mock-home, to
\* mock-home when the order is reversed, and to mock-home when it is alone.
C5_FirstMatchRouting ==
    routing.routed # <<>>
    => /\ Capable = {} <=> routing.routed[1] = NoDriver
       /\ \A i \in Capable :
             (\A j \in Capable : i <= j) => routing.routed[1] = routing.drivers[i]
       /\ (TurnOnLight /\ routing.drivers = <<LoggingDriver, MockHomeDriver>>)
          => routing.routed[1].name = "logging"
       /\ (TurnOnLight /\ routing.drivers = <<MockHomeDriver, LoggingDriver>>)
          => routing.routed[1].name = "mock-home"
       /\ (TurnOnLight /\ routing.drivers = <<MockHomeDriver>>)
          => routing.routed[1].name = "mock-home"

\* C5: the wildcard executor shadows mock-home listed after it.
C5_Witness ==
    /\ TurnOnLight
    /\ routing.drivers = <<LoggingDriver, MockHomeDriver>>
    /\ routing.routed = <<LoggingDriver>>

\* C8: after N <= 100 published events, recent(limit) with limit >= 0 returns
\* exactly min(N, limit) events, the most recently published ones in publish
\* order.
C8_RecentReturnsMinOfNAndLimit ==
    (recent # NoAnswer /\ recent.limit >= 0 /\ published <= TELEMETRY_MAXLEN)
    => /\ Len(recent.events) = Min(published, recent.limit)
       /\ \A i \in DOMAIN recent.events :
             recent.events[i] = RingEvent(published - Len(recent.events) + i)

Spawned(r) == hb_task[r].state # "none"

\* the heartbeat task of request r has ended, by returning or by its
\* cancellation
Terminated(r) == hb_task[r].state \in {"finished", "cancelled"}

\* C11: when a task proxy call that spawned a heartbeat has returned or
\* raised, on whatever path, the stop signal is set and the heartbeat task
\* has terminated; and from then on no in_progress event of that call is
\* appended.
C11_HeartbeatNeverOutlivesCall ==
    /\ [](\A r \in Requests :
            (pc[r] = "done" /\ Spawned(r)) => (done[r] /\ Terminated(r)))
    /\ [][\A r \in Requests :
            (pc[r] = "done" /\ Spawned(r))
            => Cardinality(EventsOf(r, "in_progress"))' =
                    Cardinality(EventsOf(r, "in_progress"))]_vars

\* C11: a call whose agent reply was no JSON leaves by an exception that
\* publishes nothing, after its heartbeat published an in_progress event and
\* was cancelled in its sleep.
C11_Witness ==
    \E r \in Requests :
        /\ pc[r] = "done"
        /\ call[r].raised
        /\ ~call[r].http
        /\ hb_task[r].state = "cancelled"
        /\ hb_task[r].pending = {}
        /\ EventsOf(r, "in_progress") # {}
        /\ done[r]

\* the positions of the log holding the completed or failed event of request r
TerminalOf(r) == EventsOf(r, "completed") \cup EventsOf(r, "failed")

\* C12: the events of one task proxy call are in causal order in the log:
\* one started event first, then in_progress events, then at most one
\* completed or failed event, after which no in_progress event follows;
\* with a positive heartbeat interval, a telemetry channel, and sinks
\* configured or not.
C12_LifecycleCausalOrder ==
    \A r \in Requests :
        Proxied(r)
        => /\ Cardinality(EventsOf(r, "started")) <= 1
           /\ Cardinality(TerminalOf(r)) <= 1
           /\ \A i \in AllEventsOf(r) : \E s \in EventsOf(r, "started") : s <= i
           /\ \A i \in EventsOf(r, "in_progress") : \A t \in TerminalOf(r) : i < t

\* C12 where the publish never suspends: without a sink the order holds
C12_OrderWithoutSinks ==
    \A r \in Requests :
        (Proxied(r) /\ targets(task[r].telemetry_channel) = {})
        => \A i \in EventsOf(r, "in_progress") : \A t \in TerminalOf(r) : i < t

\* the replies request r got from the agent so far, one per attempt
RepliesOf(r) == agent[r].replies

\* N: the attempts the deployment allows, max(1, configured)
Budget == IF cfg.VDI_RETRY_ATTEMPTS >= 1 THEN cfg.VDI_RETRY_ATTEMPTS ELSE 1

\* a transport error or an HTTP 429 or 5xx response
FailsRetryably(reply) ==
    \/ reply.kind = "RequestError"
    \/ reply.kind = "response" /\ (reply.status_code = 429 \/ reply.status_code \in 500..599)

\* a response that succeeds, with its body
Succeeds(reply) ==
    reply.kind = "response" /\ reply.status_code \in 200..299 /\ reply.json

\* an HTTP 4xx response other than 429
FailsForGood(reply) ==
    reply.kind = "response" /\ reply.status_code \in 400..499 /\ reply.status_code # 429

\* the first k - 1 replies to request r all failed retryably
RetriedUntil(r, k) == \A i \in 1..(k - 1) : FailsRetryably(RepliesOf(r)[i])

\* C13: when the first k - 1 attempts of an agent call (1 <= k <= N) failed
\* retryably, a retryable failure of attempt k < N is followed by the backoff
\* and attempt k + 1, and a success of attempt k makes the call return that
\* response's body after exactly k underlying calls; with N = 1 a single
\* transport error fails the call after exactly 1 underlying call.
C13_RetryUntilSuccess ==
    \A r \in Requests :
        LET k == Len(RepliesOf(r))
        IN  (k >= 1 /\ k <= Budget /\ RetriedUntil(r, k))
            => /\ Succeeds(RepliesOf(r)[k])
                  => /\ call[r] = [raised |-> FALSE, http |-> FALSE, status_code |-> 200,
                                   detail |-> RepliesOf(r)[k].body]
                     /\ agent[r].calls = k
                     /\ pc[r] = "done" => response[r] = [status_code |-> 200,
                                                         detail |-> RepliesOf(r)[k].body]
               /\ (FailsRetryably(RepliesOf(r)[k]) /\ k < Budget)
                  => /\ call[r] = NoCall
                     /\ \/ pc[r] = "vdi_backoff" /\ agent[r].calls = k
                        \/ pc[r] = "vdi_call" /\ agent[r].calls = k + 1
               /\ (Budget = 1 /\ RepliesOf(r)[k].kind = "RequestError")
                  => /\ call[r].raised
                     /\ agent[r].calls = 1

\* C13: with three attempts allowed, a call returned the body of its third
\* attempt after a transport error and a 429.
C13_Witness ==
    \E r \in Requests :
        /\ pc[r] = "done"
        /\ Budget = 3
        /\ Len(RepliesOf(r)) = 3
        /\ RepliesOf(r)[1].kind = "RequestError"
        /\ RepliesOf(r)[2].status_code = 429
        /\ Succeeds(RepliesOf(r)[3])
        /\ agent[r].calls = 3
        /\ response[r].status_code = 200

\* C14: an agent call never makes more than N = max(1, configured attempts)
\* underlying calls; when N attempts failed retryably, in any mix of
\* transport errors and 429 or 5xx responses, it has made exactly N calls,
\* takes no further attempt and fails with an HTTP error that carries the
\* detail of the last attempt.
C14_BoundedRetryAndExhaustion ==
    \A r \in Requests :
        /\ agent[r].calls <= Budget
        /\ (Len(RepliesOf(r)) >= Budget /\ RetriedUntil(r, Budget + 1))
           => /\ Len(RepliesOf(r)) = Budget
              /\ agent[r].calls = Budget
              /\ agent[r].sleeps = Budget - 1
              /\ pc[r] \notin {"vdi_call", "vdi_backoff"}
              /\ call[r].raised
              /\ call[r].http
              /\ call[r].status_code >= 400
              /\ agent[r].last_detail = RepliesOf(r)[Budget].body
              /\ call[r].detail =
                    IF RepliesOf(r)[Budget].kind = "RequestError"
                    THEN [error |-> "vdi_unavailable", detail |-> RepliesOf(r)[Budget].body]
                    ELSE RepliesOf(r)[Budget].body

\* C14: three attempts allowed, a 503, a transport error and a 429: the call
\* has failed with the 429 and its detail.
C14_Witness ==
    \E r \in Requests :
        /\ pc[r] = "done"
        /\ Budget = 3
        /\ Len(RepliesOf(r)) = 3
        /\ RepliesOf(r)[1].status_code = 503
        /\ RepliesOf(r)[2].kind = "RequestError"
        /\ RepliesOf(r)[3].status_code = 429
        /\ agent[r].calls = 3
        /\ response[r] = [status_code |-> 429, detail |-> RepliesOf(r)[3].body]

\* C15: when attempt k <= N of an agent call gets an HTTP 4xx response other
\* than 429, after retryable failures or none, the call has failed with that
\* response's status and detail, has slept only after the k - 1 failures
\* before it, and makes no attempt k + 1.
C15_NonRetryableStatus ==
    \A r \in Requests : \A k \in 1..Len(RepliesOf(r)) :
        (k <= Budget /\ RetriedUntil(r, k) /\ FailsForGood(RepliesOf(r)[k]))
        => /\ Len(RepliesOf(r)) = k
           /\ agent[r].calls = k
           /\ agent[r].sleeps = k - 1
           /\ pc[r] \notin {"vdi_call", "vdi_backoff"}
           /\ call[r] = HTTPException(RepliesOf(r)[k].status_code, RepliesOf(r)[k].body)
           /\ pc[r] = "done" => response[r] = [status_code |-> RepliesOf(r)[k].status_code,
                                               detail |-> RepliesOf(r)[k].body]

\* C15: a 404 on the second of three attempts, after a 503, ended the call
\* with 404.
C15_Witness ==
    \E r \in Requests :
        /\ pc[r] = "done"
        /\ Budget = 3
        /\ Len(RepliesOf(r)) = 2
        /\ RepliesOf(r)[1].status_code = 503
        /\ RepliesOf(r)[2].status_code = 404
        /\ agent[r].sleeps = 1
        /\ response[r].status_code = 404

\* C16: a task proxy call that appended its started event and has finished
\* appended exactly one of completed and failed: completed exactly when the
\* agent call returned, and failed, carrying the text of the failure's
\* detail, when the agent call failed in whatever way.
C16_TerminalEvent ==
    \A r \in Requests :
        /\ ~(EventsOf(r, "completed") # {} /\ EventsOf(r, "failed") # {})
        /\ (Proxied(r) /\ pc[r] = "done" /\ EventsOf(r, "started") # {})
           => /\ Cardinality(TerminalOf(r)) = 1
              /\ EventsOf(r, "completed") # {} <=> ~call[r].raised
              /\ call[r].raised
                 => \E i \in EventsOf(r, "failed") : "detail" \in DOMAIN TELEMETRY_LOG[i]

\* the part of C16 the handler keeps: never both, and for a call that
\* returned or raised an HTTPException exactly one
C16_TerminalEventOfHttpOutcome ==
    \A r \in Requests :
        /\ Cardinality(TerminalOf(r)) <= 1
        /\ (Proxied(r) /\ pc[r] = "done" /\ EventsOf(r, "started") # {}
            /\ (call[r].raised => call[r].http))
           => /\ Cardinality(TerminalOf(r)) = 1
              /\ EventsOf(r, "completed") # {} <=> ~call[r].raised
              /\ call[r].raised
                 => \E i \in EventsOf(r, "failed") :
                        TELEMETRY_LOG[i].detail = str(call[r].detail)

\* C17: with a heartbeat interval that is not positive, no in_progress event
\* of a task proxy call is ever appended, however long the agent call runs.
C17_HeartbeatDisabled ==
    \A r \in Requests :
        cfg.VDI_PROGRESS_INTERVAL <= 0
        => /\ EventsOf(r, "in_progress") = {}
           /\ \A p \in PostsOf(r) : p.event.lifecycle # "in_progress"
           /\ Spawned(r) => hb_task[r].state = "finished"

\* C17: with a negative interval a call that went through two backoff sleeps
\* has completed with a started and a completed event only.
C17_Witness ==
    \E r \in Requests :
        /\ pc[r] = "done"
        /\ cfg.VDI_PROGRESS_INTERVAL < 0
        /\ agent[r].sleeps = 2
        /\ response[r].status_code = 200
        /\ Cardinality(AllEventsOf(r)) = 2
        /\ EventsOf(r, "in_progress") = {}

\* C18: with a positive interval, once an interval has run out while the
\* agent call was still running, an in_progress event is in the log, and it
\* precedes the completed event when there is one.
C18_HeartbeatProgress ==
    \A r \in Requests :
        (cfg.VDI_PROGRESS_INTERVAL > 0 /\ hb_task[r].elapsed)
        => /\ EventsOf(r, "in_progress") # {}
           /\ \A c \in EventsOf(r, "completed") :
                 \E i \in EventsOf(r, "in_progress") : i < c

\* C18: a call completed after an interval ran out during it, with the
\* in_progress event between started and completed.
C18_Witness ==
    \E r \in Requests :
        /\ pc[r] = "done"
        /\ cfg.VDI_PROGRESS_INTERVAL > 0
        /\ hb_task[r].elapsed
        /\ response[r].status_code = 200
        /\ TELEMETRY_LOG[1].lifecycle = "started"
        /\ TELEMETRY_LOG[2].lifecycle = "in_progress"
        /\ TELEMETRY_LOG[3].lifecycle = "completed"

(***************************************************************************)
(* The policy service: properties of Spec.                                 *)
(***************************************************************************)
\* C19: a task proxy request that the policy gate stops is answered as a
\* policy denial, with status 403; no event of it is appended or posted, no
\* heartbeat task is created and the agent is not called.
C19_ProxyPolicyDenial ==
    \A r \in Requests :
        (Proxied(r) /\ policy_calls[r] > 0 /\ pc[r] = "done"
         /\ EventsOf(r, "started") = {})
        => /\ response[r].status_code = 403
           /\ AllEventsOf(r) = {}
           /\ PostsOf(r) = {}
           /\ ~Spawned(r)
           /\ agent[r].calls = 0

\* the part of C19 the handler keeps: a request stopped at the policy gate
\* leaves no event, no heartbeat task and no call of the agent
C19_NothingEmittedAtTheGate ==
    \A r \in Requests :
        (Proxied(r) /\ policy_calls[r] > 0 /\ pc[r] \in {"vdi_policy", "done"})
        => /\ AllEventsOf(r) = {}
           /\ PostsOf(r) = {}
           /\ ~Spawned(r)
           /\ agent[r].calls = 0

\* C20: a dispatch for which the policy service was consulted and failed, by
\* a connection error, a timeout, a status outside 2xx or a malformed body,
\* is not a fatal error: it has a decision with permitted = false, status
\* rejected and a reason, and the client is answered with the rejection.
C20_PolicyFailureIsDenial ==
    \A r \in Requests :
        (Dispatched(r) /\ policy_calls[r] > 0 /\ pc[r] = "done")
        => /\ response[r].status_code # 500
           /\ Decided(r)
           /\ ~decision[r].permitted
              => /\ decision[r].status = "rejected"
                 /\ decision[r].reason # None
                 /\ response[r].status_code = 403

\* the part of C20 the gate keeps: every decision that is not permitted has
\* status rejected and carries a reason
C20_DenialCarriesReason ==
    \A r \in Requests :
        (Decided(r) /\ ~decision[r].permitted)
        => /\ decision[r].status = "rejected"
           /\ decision[r].reason # None

(***************************************************************************)
(* The envelope's construction: properties of SpecSchema.                  *)
(***************************************************************************)
\* the risk levels of a list
Members(list) == {list[i] : i \in DOMAIN list}

\* C21: when constraints.allowed_risk_levels is set, to any list over the
\* risk levels, the empty list among them, the construction of an envelope
\* succeeds exactly when its risk level is a member of the list; when it is
\* not set, the construction succeeds for every risk level.
C21_EnvelopeRiskValidation ==
    validation.outcome # "none"
    => IF validation.allowed_risk_levels = <<>>
       THEN validation.outcome = "valid"
       ELSE validation.outcome = "valid"
            <=> validation.risk_level \in Members(validation.allowed_risk_levels[1])

\* the part of C21 the validator keeps: a list that is not empty, or no list
C21_ListWithMembers ==
    (validation.outcome # "none" /\ validation.allowed_risk_levels # <<<<>>>>)
    => IF validation.allowed_risk_levels = <<>>
       THEN validation.outcome = "valid"
       ELSE validation.outcome = "valid"
            <=> validation.risk_level \in Members(validation.allowed_risk_levels[1])

(***************************************************************************)
(* The dispatcher's gates: properties of Spec.                             *)
(***************************************************************************)
\* request r came without the service token the deployment requires
Unauthenticated(r) ==
    /\ cfg.REQUIRE_AUTH
    /\ authorization[r] # "Bearer secret-token"

\* C22: with bearer-token authentication required, a POST /actuate with a
\* valid envelope and a missing or wrong service token is answered 401,
\* whatever the envelope's risk level and whatever the gate decides.
C22_AuthenticationFirst ==
    \A r \in Requests :
        (Dispatched(r) /\ pc[r] = "done" /\ Unauthenticated(r))
        => response[r].status_code = 401

\* the part of C22 the handler keeps: a request without the token that the
\* gate permits is answered 401, and none without the token gets further
C22_UnauthenticatedNeverDispatched ==
    \A r \in Requests :
        (Dispatched(r) /\ Unauthenticated(r))
        => /\ pc[r] = "done"
           /\ response[r].status_code \in {401, 403}
           /\ decision[r].permitted => response[r].status_code = 401
           /\ driver[r] = NoDriver
           /\ AllEventsOf(r) = {}

(***************************************************************************)
(* Scopes                                                                  *)
(***************************************************************************)
\* the scopes a deployment accepts: a required one, or any under actuation.
Qualifies(scope) ==
    \/ scope \in cfg.REQUIRED_SCOPES
    \/ Len(scope) >= 2 /\ scope[1] = "actuation"

ScopeOk(r) ==
    \/ cfg.REQUIRED_SCOPES = {}
    \/ \E scope \in envelope[r].policy_context.scopes : Qualifies(scope)

ScopeRejected(r) ==
    /\ pc[r] = "done"
    /\ response[r] = [status_code |-> 403,
                      detail |-> "Missing required actuation scope"]

\* the request passed the gate, authentication, routing and the ceiling check
ReachedScopeCheck(r) ==
    /\ ReachedCeiling(r)
    /\ ~(/\ pc[r] = "done"
         /\ response[r] = [status_code |-> 403,
                           detail |-> "Risk level exceeds driver allowance"])

\* C23: when required scopes are configured, the executor is invoked only
\* for an envelope with a scope that is a required one or starts with
\* "actuation."; an envelope without one that reaches the scope check is
\* answered 403 with nothing executed and no event emitted; when no scopes
\* are required, or the envelope has such a scope, no request is rejected
\* for its scopes.
C23_ScopeEnforcement ==
    \A r \in Requests :
        Dispatched(r) =>
            /\ executed[r] # <<>> => ScopeOk(r)
            /\ (ReachedScopeCheck(r) /\ ~ScopeOk(r)) =>
                   /\ ScopeRejected(r)
                   /\ executed[r] = <<>>
                   /\ AllEventsOf(r) = {}
            /\ ScopeRejected(r) => ~ScopeOk(r)

\* a request with only a foreign scope was rejected under required scopes
C23_Witness ==
    \E r \in Requests :
        /\ cfg.REQUIRED_SCOPES # {}
        /\ Dispatched(r)
        /\ envelope[r].policy_context.scopes = {<<"other">>}
        /\ ReachedScopeCheck(r)
        /\ ScopeRejected(r)
        /\ executed[r] = <<>>

(***************************************************************************)
(* The gate as a function                                                  *)
(***************************************************************************)
\* C24: when the success response of the policy service carries a
\* rewritten_intent, the decision made of it carries that intent.
C24_IntentRewriting ==
    (/\ gate.reply # <<>>
     /\ gate.decisions # <<>>
     /\ gate.reply[1].status_code < 400
     /\ gate.reply[1].data.rewritten_intent # <<>>) =>
        gate.decisions[1].rewritten_intent = gate.reply[1].data.rewritten_intent

\* what the code does: no decision of evaluate_policy carries a rewritten
\* intent, so the executor sees the requested one
C24_IntentNeverRewritten ==
    \A i \in DOMAIN gate.decisions : rewrite(gate.envelope, gate.decisions[i]) = gate.envelope

ExecutionErrors ==
    {"MQTT topic required", "MQTT publish failed", "Unsupported home intent",
     "Unsupported desktop intent", "Unsupported robot intent"}

\* the executor of r was invoked and raised
ExecutorFailed(r) ==
    /\ pc[r] = "done"
    /\ executed[r] # <<>>
    /\ result[r] = NoResult

\* no driver was found for r
RoutingFailed(r) ==
    /\ ReachedCeiling(r) = FALSE
    /\ Decided(r)
    /\ decision[r].permitted
    /\ ~decision[r].requires_confirmation
    /\ verify_auth(authorization[r])

\* the step in which the executor of r raises
ExecutorFails(r) == pc[r] = "execute" /\ pc'[r] = "done"

MatchesAsSpecified(cap, env) ==
    /\ env.intent.name = cap.name \/ cap.name = "*"
    /\ cap.device_classes = {} \/ env.target.device_class \in cap.device_classes

\* C27: a capability matches an envelope exactly when its name is the
\* intent's name or the wildcard and its device classes are empty or hold
\* the class of the target; an executor can handle an envelope exactly when
\* one of its declared capabilities matches.
C27_CapabilityMatching ==
    routing.routed # <<>> =>
        \A i \in DOMAIN routing.drivers :
            LET caps == routing.drivers[i].capabilities
            IN  /\ \A k \in DOMAIN caps :
                      matches(caps[k], routing.envelope)
                          <=> MatchesAsSpecified(caps[k], routing.envelope)
                /\ can_handle(routing.drivers[i], routing.envelope)
                      <=> \E k \in DOMAIN caps : matches(caps[k], routing.envelope)

\* what the code does: capabilities without the wildcard name match as
\* specified, and every listed executor handles exactly the envelopes that
\* one of its capabilities matches as specified
C27_HandlesAsSpecified ==
    routing.routed # <<>> =>
        \A i \in DOMAIN routing.drivers :
            LET caps == routing.drivers[i].capabilities
            IN  /\ \A k \in DOMAIN caps :
                      caps[k].name # "*" =>
                          (matches(caps[k], routing.envelope)
                              <=> MatchesAsSpecified(caps[k], routing.envelope))
                /\ can_handle(routing.drivers[i], routing.envelope)
                      <=> \E k \in DOMAIN caps :
                              MatchesAsSpecified(caps[k], routing.envelope)

\* C29: with the registry the process builds, logging first, route returns
\* the logging executor for every envelope: no later executor is selected
\* and route never fails.
C29_ShippedOrderShadowing ==
    (routing.routed # <<>> /\ routing.drivers = driver_registry) =>
        /\ routing.routed[1] = LoggingDriver
        /\ routing.routed[1] # NoDriver
        /\ \A i \in 2..Len(driver_registry) : routing.routed[1] # driver_registry[i]

\* the shipped registry routed a turn_on of a light, which mock-home declares
C29_Witness ==
    /\ routing.drivers = driver_registry
    /\ routing.routed # <<>>
    /\ TurnOnLight
    /\ can_handle(MockHomeDriver, routing.envelope)
    /\ routing.routed[1].name = "logging"

(***************************************************************************)
(* Backoff                                                                 *)
(***************************************************************************)
\* min(cap, base * 2^(k-1)), the wait specified after attempt k
Wait(k) == Min(cfg.VDI_RETRY_MAX_DELAY, cfg.VDI_RETRY_BACKOFF_BASE * 2 ^ (k - 1))

RECURSIVE TotalWait(_)
\* the sum of Wait(k) over k = 1..n
TotalWait(n) == IF n = 0 THEN 0 ELSE TotalWait(n - 1) + Wait(n)

RECURSIVE SumOf(_)
SumOf(seq) == IF seq = <<>> THEN 0 ELSE seq[1] + SumOf(Tail(seq))

\* every attempt the deployment allows was made for r and failed retryably
Exhausted(r) ==
    /\ pc[r] = "done"
    /\ Len(RepliesOf(r)) = Budget
    /\ \A i \in DOMAIN RepliesOf(r) : FailsRetryably(RepliesOf(r)[i])

\* C28: the k-th wait of a call follows the retryable failure of attempt k,
\* with k < N, and lasts min(cap, base * 2^(k-1)), which never decreases with
\* k and never exceeds the cap; nothing is waited after attempt N, so a call
\* whose N attempts all fail has waited the sum of the first N - 1 of them.
C28_BackoffSchedule ==
    \A r \in Requests :
        LET waits == agent[r].delays
        IN  /\ \A k \in DOMAIN waits :
                  /\ k < Budget
                  /\ FailsRetryably(RepliesOf(r)[k])
                  /\ waits[k] = Wait(k)
                  /\ waits[k] <= cfg.VDI_RETRY_MAX_DELAY
                  /\ k > 1 => waits[k - 1] <= waits[k]
            /\ \A k \in DOMAIN RepliesOf(r) :
                  (k < Len(RepliesOf(r)) \/ pc[r] = "vdi_backoff") => k \in DOMAIN waits
            /\ Len(waits) <= Len(RepliesOf(r))
            /\ Exhausted(r) =>
                  /\ Len(waits) = Budget - 1
                  /\ SumOf(waits) = TotalWait(Budget - 1)

\* three attempts failed with base 0.25 s and cap 0.4 s: the call waited
\* 0.25 s, then the cap
C28_Witness ==
    \E r \in Requests :
        /\ Exhausted(r)
        /\ Budget = 3
        /\ agent[r].delays = <<250, 400>>

(***************************************************************************)
(* The order of the checks                                                 *)
(***************************************************************************)
\* r was permitted with a confirmation required, and authenticated
AsksConfirmation(r) ==
    /\ Decided(r)
    /\ decision[r].permitted
    /\ decision[r].requires_confirmation
    /\ verify_auth(authorization[r])

\* r was permitted without a confirmation, and authenticated
GoesToRouting(r) ==
    /\ Decided(r)
    /\ decision[r].permitted
    /\ ~decision[r].requires_confirmation
    /\ verify_auth(authorization[r])

NoExecutorFor(r) == \A i \in DOMAIN cfg.drivers : ~can_handle(cfg.drivers[i], envelope[r])

\* the comparison of line 226 raises for r
CeilingRaises(r) ==
    /\ ~NoExecutorFor(r)
    /\ exceeds_allowance(envelope[r], select_driver(envelope[r]))

Answer(r, status_code, detail) ==
    /\ pc[r] = "done"
    /\ response[r] = [status_code |-> status_code, detail |-> detail]

\* C30: a request that needs a confirmation is answered 202 with exactly one
\* awaiting_confirmation event, whether or not an executor matches, the
\* ceiling is exceeded or the scopes are missing; otherwise routing is
\* checked first, then the ceiling, then the scopes, and a request failing
\* one of them never has an executor invoked.
C30_CheckOrdering ==
    \A r \in Requests :
        /\ (AsksConfirmation(r) /\ pc[r] = "done") =>
              /\ response[r].status_code = 202
              /\ Cardinality(EventsOf(r, "awaiting_confirmation")) = 1
              /\ Cardinality(AllEventsOf(r)) = 1
              /\ executed[r] = <<>>
        /\ GoesToRouting(r) =>
              /\ NoExecutorFor(r) => Answer(r, 400, "No driver registered")
              /\ CeilingRaises(r) => Answer(r, 403, "Risk level exceeds driver allowance")
              /\ (~NoExecutorFor(r) /\ ~CeilingRaises(r) /\ ~ScopeOk(r))
                    => Answer(r, 403, "Missing required actuation scope")
              /\ (NoExecutorFor(r) \/ CeilingRaises(r) \/ ~ScopeOk(r))
                    => executed[r] = <<>> /\ AllEventsOf(r) = {}

\* a request asking for a confirmation got its 202 although no executor
\* matches it and it has none of the required scopes
C30_Witness ==
    \E r \in Requests :
        /\ AsksConfirmation(r)
        /\ pc[r] = "done"
        /\ NoExecutorFor(r)
        /\ cfg.REQUIRED_SCOPES # {}
        /\ ~ScopeOk(r)
        /\ response[r].status_code = 202
        /\ Cardinality(EventsOf(r, "awaiting_confirmation")) = 1

\* a request without a capable executor and without a required scope was
\* answered by routing
C30_RoutingBeforeScopes ==
    \E r \in Requests :
        /\ GoesToRouting(r)
        /\ NoExecutorFor(r)
        /\ cfg.REQUIRED_SCOPES # {}
        /\ ~ScopeOk(r)
        /\ Answer(r, 400, "No driver registered")

(***************************************************************************)
(* Unauthenticated requests                                                *)
(***************************************************************************)
\* r arrived under required authentication without the configured token,
\* or no token is configured
Unauthorized(r) ==
    /\ cfg.REQUIRE_AUTH
    /\ pc[r] # "idle"
    /\ \/ cfg.SERVICE_TOKEN \in {None, ""}
       \/ authorization[r] \in {None, "Bearer wrong"}

\* C31: when authentication is required, a request to POST /actuate or to
\* the task proxy with a missing or wrong token never has an executor
\* invoked, the agent called, a heartbeat started or an event appended; and
\* when no service token is configured this holds for every request.
C31_UnauthenticatedHasNoSideEffects ==
    \A r \in Requests :
        Unauthorized(r) =>
            /\ executed[r] = <<>>
            /\ agent[r].calls = 0
            /\ hb_task[r].state = "none"
            /\ AllEventsOf(r) = {}
            /\ TELEMETRY_LOG = <<>>
            /\ pc[r] = "done"
            /\ response[r].status_code \in {401, 403}

\* a proxy call without a token, the configured token being the empty string,
\* was turned away
C31_Witness ==
    \E r \in Requests :
        /\ Unauthorized(r)
        /\ cfg.SERVICE_TOKEN = ""
        /\ authorization[r] = None
        /\ task[r] # NoTask
        /\ response[r] = [status_code |-> 401, detail |-> "Invalid or missing service token"]
        /\ agent[r].calls = 0

(***************************************************************************)
(* Concurrent task-proxy calls                                             *)
(***************************************************************************)
\* the heartbeat of call r has been stopped or has ended
Stopped(r) == hb_task[r].state \in {"finished", "cancelling", "cancelled"}

\* this step is one of call r: its handler or its heartbeat moves
StepOf(r) == pc'[r] # pc[r] \/ hb_task'[r] # hb_task[r]

\* this step appends one event to the telemetry log
Appends == Len(TELEMETRY_LOG') = Len(TELEMETRY_LOG) + 1

\* the telemetry log holds a completed or failed event of r and, after it,
\* an in_progress event of q
EmitsAfter(r, q) ==
    \E i, j \in DOMAIN TELEMETRY_LOG :
        /\ i < j
        /\ TELEMETRY_LOG[i].action_id = r
        /\ TELEMETRY_LOG[i].lifecycle \in {"completed", "failed"}
        /\ TELEMETRY_LOG[j].action_id = q
        /\ TELEMETRY_LOG[j].lifecycle = "in_progress"

\* C32: each call has its own stop signal and heartbeat task: the heartbeat
\* of a call is stopped only once that call has set its own signal; the step
\* that finishes one call leaves the signal and the heartbeat of every other
\* call as they were; and every event appended by a step of a call carries
\* the action_id of that call and one of the four lifecycles.
C32_HeartbeatIsolation ==
    /\ [](\A r \in Calls : (Spawned(r) /\ Stopped(r)) => done[r])
    /\ [][\A r \in Calls : \A q \in Calls \ {r} :
            /\ (done'[r] /\ ~done[r]) => (done'[q] = done[q] /\ hb_task'[q] = hb_task[q])
            /\ (hb_task'[r] # hb_task[r]) => (done'[q] = done[q] /\ hb_task'[q] = hb_task[q])
            /\ (StepOf(r) /\ Appends) =>
                  /\ ~StepOf(q)
                  /\ TELEMETRY_LOG'[Len(TELEMETRY_LOG')].action_id = task'[r].action_id
                  /\ TELEMETRY_LOG'[Len(TELEMETRY_LOG')].lifecycle
                        \in {"started", "in_progress", "completed", "failed"}]_vars

\* call 1 has finished and its heartbeat was cancelled, while the heartbeat
\* of call 2, still waiting for the agent, went on emitting in_progress
C32_Witness ==
    \E r \in Calls : \E q \in Calls \ {r} :
        /\ pc[r] = "done"
        /\ done[r]
        /\ hb_task[r].state = "cancelled"
        /\ pc[q] = "vdi_call"
        /\ ~done[q]
        /\ hb_task[q].state = "sleeping"
        /\ EmitsAfter(r, q)

====
